---- MODULE Spec2Model ----
(***************************************************************************)
(* A model of the SpiderWeb payment SDKs:                                  *)
(*   - SpiderWebSDK (multichain), src/payment-sdk-multichain.js 2-741      *)
(*   - SpiderWeb7702SDK v3.0,     src/payment-sdk-multichain.js 748-1128   *)
(*   - SpiderWeb7702SDK v3.1,     src/payment-sdk-multichain.js 1149-1660  *)
(*   - SpiderWebSDK v1.1,         src/new.js                               *)
(*                                                                         *)
(* Numbers.  Prices are whole fiat units, balances are raw integers and a  *)
(* fiat value (balance / 10^decimals) * price is kept exactly, as a        *)
(* fraction; the rounding of the double-precision arithmetic of the        *)
(* source is not modelled.  The native balance is counted in NativeUnit-th *)
(* of one native coin instead of 10^-18.                                   *)
(***************************************************************************)
EXTENDS Integers, Sequences, FiniteSets, TLC

VARIABLES
    \* ---- price cache of SpiderWebSDK (multichain)
    priceCache,     \* _priceCache: lowercase address -> [price, timestamp]
    clock,          \* Date.now(), in milliseconds
    ticks,          \* how many times the clock has advanced
    chainId,        \* _currentUserChainId
    call,           \* per caller: the activation of _fetchTokenPrices
    callsMade,      \* how many activations were started
    \* ---- the wallet scan and the selection of the asset(s)
    sdk,            \* which SDK object the page loaded
    world,          \* what the indexing RPC, the contracts and the oracle answer
    rankedRuns,     \* the lists _getRankedCompatibleTokens returned, run after run
    selected,       \* what _findHighestValueToken returned
    assets,         \* what _findAllAssets returned
    priceFetchCalls, \* activations of _fetchTokenPrices during the selection
    \* ---- the permit run: _executeSend, _signAndSendWithStandardPermit
    chainNonce,     \* nonces(owner) of each token contract, on chain
    permitRun,      \* the run in progress: position and locals
    permitEvents,   \* what happened, in order: scans, selections, nonce reads,
                    \* signing requests, signatures, relay POSTs, nonces consumed
    \* ---- the batch run: _handleProviderSelection, _handlePaymentClick, _executeSplit
    splitRun,       \* the run in progress: position, entry point, calls
    statusLog,      \* the calls of _updateStatus, in order (of the permit SDKs:
                    \* since the last click or wallet selection)
    walletRequests, \* the wallet_sendCalls requests sent to the wallet
    \* ---- the session and the wallet modal
    session,        \* _signer, _currentUserAddress, _currentUserChainId
    resolveConnection,   \* _resolveConnection is set (the modal was opened)
    modalOpen,      \* the wallet modal is on display
    announced,      \* the eip6963:announceProvider events dispatched so far
    discoveredProviders, \* _discoveredProviders: a Map, in insertion order
    renders,        \* how many times _renderWalletList ran
    \* ---- the page: init, the payment button, the handlers in flight
    isInitialized,  \* _isInitialized
    relayerAddress, \* _config.relayerAddress
    initCall,       \* the calls of init, in order: where each stands
    clickListeners, \* how many listeners of 'click' the payment button has
    buttonDisabled, \* payButton.disabled
    flows,          \* the handlers the clicks started and the timers of the
                    \* modal, in order: where each stands
    telemetry       \* the tasks _logConnectionEvent / _logConnectionToServer
                    \* started, in order: where each stands

cacheVars == <<priceCache, clock, ticks, chainId, call, callsMade>>

selectVars == <<sdk, world, rankedRuns, selected, assets, priceFetchCalls>>

permitVars == <<chainNonce, permitRun, permitEvents>>

splitVars == <<splitRun, statusLog, walletRequests>>

flowVars == <<chainNonce, permitRun, permitEvents, splitRun, statusLog, walletRequests>>

uiVars == <<session, resolveConnection, modalOpen, announced, discoveredProviders, renders>>

pageVars == <<isInitialized, relayerAddress, initCall, clickListeners, buttonDisabled, flows>>

vars == <<priceCache, clock, ticks, chainId, call, callsMade,
          sdk, world, rankedRuns, selected, assets, priceFetchCalls,
          chainNonce, permitRun, permitEvents, splitRun, statusLog, walletRequests,
          session, resolveConnection, modalOpen, announced, discoveredProviders, renders,
          isInitialized, relayerAddress, initCall, clickListeners, buttonDisabled, flows,
          telemetry>>

(***************************************************************************)
(*                              Bounds                                     *)
(***************************************************************************)
MaxTicks == 2
MaxCalls == 2

(***************************************************************************)
(*                     Maps (plain JavaScript objects)                     *)
(***************************************************************************)
EmptyMap == [k \in {} |-> 0]

\* { ...a, ...b }
Spread(a, b) ==
    [k \in (DOMAIN a) \cup (DOMAIN b) |-> IF k \in DOMAIN b THEN b[k] ELSE a[k]]

Range(s) == {s[i] : i \in 1..Len(s)}

(***************************************************************************)
(*                      Addresses and chain directory                      *)
(***************************************************************************)
\* Contract addresses as the indexing RPC may spell them.
Addresses == {"0xAA", "0xbb"}

\* String.prototype.toLowerCase on the addresses of the model.
toLowerCase(s) == IF s = "0xAA" THEN "0xaa" ELSE s

\* The chains a wallet may be on: a configured one and one that is not.
Chains == {1, 5}

CHAIN_ID_TO_COINGECKO_ASSET_PLATFORM ==
    [c \in {1, 137, 10, 42161, 56, 43114, 8453, 14} |->
        CASE c = 1 -> "ethereum"
          [] c = 137 -> "polygon-pos"
          [] c = 10 -> "optimistic-ethereum"
          [] c = 42161 -> "arbitrum-one"
          [] c = 56 -> "binance-smart-chain"
          [] c = 43114 -> "avalanche"
          [] c = 8453 -> "base"
          [] c = 14 -> "flare-network"]

CHAIN_ID_TO_ALCHEMY_SUBDOMAIN == {1, 137, 10, 42161, 56, 8453, 43114}

CHAIN_ID_TO_PUBLIC_RPC == {14}

\* _getAlchemyUrl returns a URL for these chains and throws for every other.
getAlchemyUrlOk(c) ==
    c \in CHAIN_ID_TO_ALCHEMY_SUBDOMAIN \/ c \in CHAIN_ID_TO_PUBLIC_RPC

(***************************************************************************)
(*          The world a scan reads: indexing RPC, contracts, oracle        *)
(***************************************************************************)
SDKs == {"SpiderWebSDK_v1_1", "SpiderWebSDK", "SpiderWeb7702SDK_v3_0", "SpiderWeb7702SDK_v3_1"}

PermitSDKs == {"SpiderWebSDK_v1_1", "SpiderWebSDK"}

\* null, and an absent entry of an object.
Null == 0 - 1

Falsy(x) == x = Null \/ x = 0

\* The tokens the indexing RPC enumerates, in its order: a prefix of this list.
TokenOrder == <<"0xAA", "0xbb", "0xcc">>

BatchTokenOrder == <<"0xAA", "0xbb">>

\* The allow-list of _checkPermitSupport (v1.1).
KNOWN_PERMIT_TOKENS == {"0xcc"}

\* BigInt(text) / BigNumber.from(text) of the balance texts of the model.
HexValue(text) ==
    CASE text = "0x0" -> 0
      [] text = "0x00" -> 0
      [] text = "0x1f4" -> 500
      [] text = "0x3e8" -> 1000

HexText(n) ==
    CASE n = 0 -> "0x00"
      [] n = 500 -> "0x1f4"
      [] n = 1000 -> "0x3e8"

\* <<balanceOf, decimals>> of a token contract.
Holdings == {<<0, 1>>, <<500, 2>>, <<1000, 1>>, <<1000, 2>>}

\* What the oracle's body holds for an address: no entry, or { usd: q }.
Quotes == {Null, 0, 2, 1000}

Tok(address, text, nonces, meta, holding, quote, fetch, metadata) ==
    [contractAddress |-> address, tokenBalance |-> text, nonces |-> nonces,
     meta |-> meta, balance |-> holding[1], decimals |-> holding[2],
     quote |-> quote, fetch |-> fetch, metadata |-> metadata]

\* A token the filter on tokenBalance drops, one whose nonces() reverts and
\* one whose name/symbol/balanceOf/decimals read fails.
DeadTokens(address) ==
    {Tok(address, "0x0", "revert", "ok", <<0, 1>>, Null, "ok", "ok"),
     Tok(address, "0x3e8", "revert", "ok", <<0, 1>>, Null, "ok", "ok"),
     Tok(address, "0x3e8", "ok", "fail", <<0, 1>>, Null, "ok", "ok")}

\* The last token of the enumeration comes in fewer conditions.
HoldingsOf(address) == IF address = TokenOrder[3] THEN {<<1000, 1>>} ELSE Holdings

QuotesOf(address) == IF address = TokenOrder[3] THEN {Null, 2} ELSE Quotes

\* The tokens of the permit SDKs.  perAddress: the oracle is asked address by
\* address (multichain) and each request may fail on its own.
PermitTokens(address, perAddress, priced) ==
    DeadTokens(address)
      \cup {Tok(address, HexText(h[1]), n, "ok", h, q, "ok", "ok") :
               h \in HoldingsOf(address),
               q \in (IF priced THEN QuotesOf(address) ELSE {Null}),
               n \in (IF address \in KNOWN_PERMIT_TOKENS /\ ~perAddress
                      THEN {"ok", "revert"} ELSE {"ok"})}
      \cup {Tok(address, HexText(h[1]), "ok", "ok", h, Null, f, "ok") :
               h \in HoldingsOf(address),
               f \in (IF perAddress THEN {"httpError", "rejects"} ELSE {})}

\* The tokens of the 7702 SDKs: the balance is the text of the indexing RPC,
\* the decimals come from alchemy_getTokenMetadata.
BatchTokens(address) ==
    {Tok(address, "0x0", "ok", "ok", <<0, 1>>, Null, "ok", "ok")}
      \cup {Tok(address, "0x3e8", "ok", "ok", <<1000, 1>>, Null, f, "ok") :
               f \in {"ok", "httpError", "rejects"}}
      \cup {Tok(address, t, "ok", "ok", <<HexValue(t), 1>>, Null, "ok", "ok") :
               t \in {"0x00", "0x1f4"}}
      \cup {Tok(address, "0x00", "ok", "ok", <<0, 1>>, q, "ok", "ok") : q \in {0, 2}}
      \cup {Tok(address, t, "ok", "ok", <<HexValue(t), 1>>, 0, "ok", "ok") : t \in {"0x1f4", "0x3e8"}}
      \cup {Tok(address, t, "ok", "ok", <<HexValue(t), d>>, 2, "ok", "ok") :
               t \in {"0x1f4", "0x3e8"}, d \in {2, 3}}
      \cup {Tok(address, "0x1f4", "ok", "ok", <<500, 2>>, 1000, "ok", "ok")}
      \cup {Tok(address, "0x3e8", "ok", "ok", <<1000, 1>>, 1000, "ok", m) :
               m \in {"noResult", "nullDecimals"}}

\* One native coin, in the unit the native balance is counted in.
NativeUnit == 1000000000

\* The native side of the world: balance, oracle answer for 'ethereum', fee data.
NativeSides ==
    {[ethBalance |-> 0, ethFetch |-> f, ethQuote |-> Null, maxFeePerGas |-> Null, gasPrice |-> Null] :
        f \in {"ok", "httpError", "rejects"}}
      \cup {[ethBalance |-> 0, ethFetch |-> "ok", ethQuote |-> 120, maxFeePerGas |-> Null, gasPrice |-> Null]}
      \cup {[ethBalance |-> b, ethFetch |-> "ok", ethQuote |-> 120, maxFeePerGas |-> m, gasPrice |-> g] :
               b \in {10000000, 15000000, 16000000}, m \in {Null, 0, 75}, g \in {Null, 50}}

NoNative ==
    [ethBalance |-> 0, ethFetch |-> "ok", ethQuote |-> Null, maxFeePerGas |-> Null, gasPrice |-> Null]

\* A handler that has not run, and a world without tokens.
NotRun == [status |-> "notRun"]

NoWorld ==
    [chainId |-> 1, balancesOk |-> TRUE, tokens |-> <<>>, oracleStatus |-> "ok",
     native |-> NoNative]

V11Tokens(address) == PermitTokens(address, FALSE, TRUE)
V11TokensUnpriced(address) == PermitTokens(address, FALSE, FALSE)
MultichainTokens(address) == PermitTokens(address, TRUE, TRUE)

\* The conditions of the token at an address, for each kind of world.
TokensOf(kind, address) ==
    CASE kind = "v11" -> V11Tokens(address)
      [] kind = "v11Unpriced" -> V11TokensUnpriced(address)
      [] kind = "multichain" -> MultichainTokens(address)
      [] kind = "batch" -> BatchTokens(address)

\* The enumerations of the indexing RPC: a prefix of order, each token in one
\* of the conditions of its address.
TokenLists(order, kind) ==
    {<<>>}
      \cup {<<a>> : a \in TokensOf(kind, order[1])}
      \cup {<<a, b>> : a \in TokensOf(kind, order[1]), b \in TokensOf(kind, order[2])}
      \cup (IF Len(order) < 3 THEN {}
            ELSE {<<a, b, c>> : a \in TokensOf(kind, order[1]),
                                b \in TokensOf(kind, order[2]),
                                c \in TokensOf(kind, order[3])})

\* The worlds of each SDK.  Where the oracle is not asked at all, or answers
\* the one batched request with a failure, no token has a quote.
Worlds(s) ==
    CASE s = "SpiderWebSDK_v1_1" ->
            {[NoWorld EXCEPT !.tokens = l] : l \in TokenLists(TokenOrder, "v11")}
              \cup {[NoWorld EXCEPT !.tokens = l, !.oracleStatus = o] :
                       l \in TokenLists(TokenOrder, "v11Unpriced"),
                       o \in {"httpError", "rejects"}}
              \cup {[NoWorld EXCEPT !.tokens = l, !.chainId = 5] :
                       l \in TokenLists(TokenOrder, "v11Unpriced")}
              \cup {[NoWorld EXCEPT !.balancesOk = FALSE]}
      [] s = "SpiderWebSDK" ->
            {[NoWorld EXCEPT !.tokens = l] : l \in TokenLists(TokenOrder, "multichain")}
              \cup {[NoWorld EXCEPT !.balancesOk = FALSE]}
              \cup {[NoWorld EXCEPT !.chainId = 5]}
      [] OTHER ->
            {[NoWorld EXCEPT !.tokens = l, !.native = n] :
                 l \in TokenLists(BatchTokenOrder, "batch"), n \in NativeSides}
              \cup {[NoWorld EXCEPT !.balancesOk = FALSE]}
              \cup {[NoWorld EXCEPT !.tokens = <<t>>, !.chainId = 5,
                                    !.native = [NoNative EXCEPT !.ethBalance = 16000000]] :
                       t \in {Tok("0xAA", "0x3e8", "ok", "ok", <<1000, 1>>, Null, "ok", "ok")}}

\* The flows at rest.
\* No answer of the relayer yet.
NoResponse == [ok |-> FALSE, parses |-> FALSE, success |-> FALSE, message |-> "none"]

\* permitMessage and payload before they are built.
NoPermitMessage == [nonce |-> Null, deadline |-> Null]

NoPayload == [deadline |-> Null]

\* builtAt: the Date.now() the deadline was computed from.
IdlePermitRun ==
    [pc |-> "idle", run |-> 0, entry |-> "", token |-> "", nonce |-> Null,
     version |-> "", deadline |-> 0, builtAt |-> Null,
     permitMessage |-> NoPermitMessage, payload |-> NoPayload,
     response |-> NoResponse, error |-> ""]

NoInitResponse == [fetch |-> "none", ok |-> FALSE, success |-> FALSE, contractAddress |-> ""]

IdleSplitRun ==
    [pc |-> "idle", run |-> 0, entry |-> "", calls |-> <<>>, response |-> NoInitResponse]

\* No wallet has announced itself: new Map().
NoProviders ==
    /\ announced = <<>>
    /\ discoveredProviders = <<>>
    /\ renders = 0

\* No session: the three fields as the object literal sets them.
NoSession == [signer |-> "", address |-> "", chainId |-> Null]

\* The relayer address the remote configuration gives.
RelayerAddress == "0xRelayer"

\* init has run once and succeeded: the relayer address is set, the payment
\* button has its listener.
Initialized ==
    /\ isInitialized = TRUE
    /\ relayerAddress = RelayerAddress
    /\ initCall = <<"initialized">>
    /\ clickListeners = 1
    /\ buttonDisabled = FALSE

FlowsAtRest ==
    /\ Initialized
    /\ flows = <<>>
    /\ telemetry = <<>>
    /\ session = NoSession
    /\ resolveConnection = FALSE
    /\ modalOpen = FALSE
    /\ chainNonce = [a \in Addresses |-> 0]
    /\ permitRun = IdlePermitRun
    /\ permitEvents = <<>>
    /\ splitRun = IdleSplitRun
    /\ statusLog = <<>>
    /\ walletRequests = <<>>

(***************************************************************************)
(*                  Price cache: _fetchTokenPrices (multichain)            *)
(***************************************************************************)
CACHE_DURATION_MS == 5 * 60 * 1000

\* The clock advances by one of these amounts.
TickSteps == {1, CACHE_DURATION_MS - 1}

Callers == {"runA", "runB"}

\* What the price oracle may answer to the request for one address:
\*   "rejects"   fetch rejects (network error) or the body does not parse,
\*   "httpError" a response that is not ok,
\*   "missing"   a body without an entry for the address,
\*   "ok"        a body with { usd: p } for the address.
OraclePrices == {2, 1000}

Outcomes ==
    {[kind |-> k, usd |-> 0] : k \in {"rejects", "httpError", "missing"}}
        \cup {[kind |-> "ok", usd |-> p] : p \in OraclePrices}

\* The lists of addresses a caller may pass.
AddressLists == {<<"0xAA">>, <<"0xbb">>, <<"0xAA", "0xbb">>}

\* now - cached.timestamp < this._CACHE_DURATION_MS
IsFreshSeconds(now, timestamp) == now - timestamp < 5 * 60
IsFreshInclusive(now, timestamp) == now - timestamp <= CACHE_DURATION_MS
IsFresh(now, timestamp) == now - timestamp < CACHE_DURATION_MS

\* The loop over tokenAddresses: the prices served from the cache.
PricesFromCache(cache, now, tokenAddresses) ==
    LET hit == {toLowerCase(a) : a \in
                  {b \in Range(tokenAddresses) :
                      /\ toLowerCase(b) \in DOMAIN cache
                      /\ IsFresh(now, cache[toLowerCase(b)].timestamp)}}
    IN  [k \in hit |-> cache[k].price]

\* The loop over tokenAddresses: the addresses pushed to addressesToFetch.
AddressesToFetch(cache, now, tokenAddresses) ==
    SelectSeq(tokenAddresses,
              LAMBDA b : ~ (/\ toLowerCase(b) \in DOMAIN cache
                            /\ IsFresh(now, cache[toLowerCase(b)].timestamp)))

\* One element of results: what a fetch promise resolves to.
\* "rejected" marks a response that was not ok; a body without the address
\* gets the { usd: 0 } entry.
FetchResult(address, outcome) ==
    IF outcome.kind = "httpError" THEN EmptyMap
    ELSE [k \in {toLowerCase(address)} |->
             IF outcome.kind = "ok" THEN outcome.usd ELSE 0]

\* results.reduce(...): the spread of every result that is not rejected.
RECURSIVE NewPrices(_, _)
NewPrices(addressesToFetch, outcomes) ==
    IF addressesToFetch = <<>> THEN EmptyMap
    ELSE LET n == Len(addressesToFetch)
             a == addressesToFetch[n]
         IN  Spread(NewPrices(SubSeq(addressesToFetch, 1, n - 1), outcomes),
                    FetchResult(a, outcomes[a]))

\* The prices the oracle answered with, by the address requested.
Answered(addressesToFetch, outcomes) ==
    [a \in {b \in Range(addressesToFetch) : outcomes[b].kind = "ok"} |->
        outcomes[a].usd]

\* A fetch that rejects, or a body that does not parse, rejects Promise.all.
AllSettledOk(addressesToFetch, outcomes) ==
    \A a \in Range(addressesToFetch) :
        outcomes[a].kind # "rejects"

\* A write that leaves an entry the cache already holds in place.
CacheKeepsEarlierEntry(cache, newPrices, now) ==
    LET written == [k \in {toLowerCase(a) : a \in DOMAIN newPrices} |->
                       [price |-> newPrices[k], timestamp |-> now]]
    IN  Spread(written, cache)

\* The loop writing newPrices into this._priceCache, stamped with now.
CacheAfterWrite(cache, newPrices, now) ==
    LET written == [k \in {toLowerCase(a) : a \in DOMAIN newPrices} |->
                       [price |-> newPrices[k], timestamp |-> now]]
    IN  Spread(cache, written)

IdleCall ==
    [pc |-> "idle", tokenAddresses |-> <<>>, assetPlatform |-> "", now |-> 0,
     cacheAtStart |-> EmptyMap, pricesFromCache |-> EmptyMap,
     addressesToFetch |-> <<>>, requested |-> {}, answered |-> EmptyMap,
     newPrices |-> EmptyMap, result |-> EmptyMap]

\* this._CHAIN_ID_TO_COINGECKO_ASSET_PLATFORM[this._currentUserChainId];
\* "" stands for undefined.
AssetPlatform(c) ==
    IF c \in DOMAIN CHAIN_ID_TO_COINGECKO_ASSET_PLATFORM
    THEN CHAIN_ID_TO_COINGECKO_ASSET_PLATFORM[c] ELSE ""

\* _fetchTokenPrices up to its first suspension: the platform lookup, the
\* partition of tokenAddresses and the requests sent to the oracle.
FetchTokenPricesBegin(c, tokenAddresses) ==
    /\ callsMade < MaxCalls
    /\ callsMade' = callsMade + 1
    /\ LET now == clock
           base == [IdleCall EXCEPT !.tokenAddresses = tokenAddresses,
                                    !.assetPlatform = AssetPlatform(chainId),
                                    !.now = now,
                                    !.cacheAtStart = priceCache]
           fromCache == PricesFromCache(priceCache, now, tokenAddresses)
           toFetch == AddressesToFetch(priceCache, now, tokenAddresses)
       IN  IF base.assetPlatform = ""
           THEN call' = [call EXCEPT ![c] = [base EXCEPT !.pc = "done"]]
           ELSE IF Len(toFetch) = 0
           THEN call' = [call EXCEPT ![c] =
                            [base EXCEPT !.pc = "done",
                                         !.pricesFromCache = fromCache,
                                         !.result = fromCache]]
           ELSE call' = [call EXCEPT ![c] =
                            [base EXCEPT !.pc = "awaiting",
                                         !.pricesFromCache = fromCache,
                                         !.addressesToFetch = toFetch,
                                         !.requested = Range(toFetch)]]
    /\ UNCHANGED <<priceCache, clock, ticks, chainId>>
    /\ UNCHANGED selectVars
    /\ UNCHANGED flowVars
    /\ UNCHANGED <<uiVars, pageVars, telemetry>>

\* The call made by a scan whose _getAlchemyUrl(this._currentUserChainId)
\* returned a URL just before.
FetchTokenPricesStart(c, tokenAddresses) ==
    /\ call[c].pc \in {"idle", "done"}
    /\ c = "runB" => call["runA"].pc = "awaiting"   \* runB: the overlapping call
    /\ getAlchemyUrlOk(chainId)
    /\ FetchTokenPricesBegin(c, tokenAddresses)

\* _fetchTokenPrices after Promise.all settled: the reduce, the cache write
\* and the returned mapping; or the catch branch.
FetchTokenPricesSettle(c, outcomes) ==
    /\ call[c].pc = "awaiting"
    /\ LET cur == call[c]
           newPrices == NewPrices(cur.addressesToFetch, outcomes)
           answered == Answered(cur.addressesToFetch, outcomes)
       IN  IF AllSettledOk(cur.addressesToFetch, outcomes)
           THEN /\ priceCache' = CacheAfterWrite(priceCache, newPrices, cur.now)
                /\ call' = [call EXCEPT ![c] =
                               [cur EXCEPT !.pc = "done",
                                           !.answered = answered,
                                           !.newPrices = newPrices,
                                           !.result = Spread(cur.pricesFromCache, newPrices)]]
           ELSE /\ UNCHANGED priceCache
                /\ call' = [call EXCEPT ![c] =
                               [cur EXCEPT !.pc = "done",
                                           !.answered = answered,
                                           !.result = cur.pricesFromCache]]
    /\ UNCHANGED <<clock, ticks, chainId, callsMade>>
    /\ UNCHANGED selectVars
    /\ UNCHANGED flowVars
    /\ UNCHANGED <<uiVars, pageVars, telemetry>>

\* Time passes.
Tick(d) ==
    /\ ticks < MaxTicks
    /\ clock' = clock + d
    /\ ticks' = ticks + 1
    /\ UNCHANGED <<priceCache, chainId, call, callsMade>>
    /\ UNCHANGED selectVars
    /\ UNCHANGED flowVars
    /\ UNCHANGED <<uiVars, pageVars, telemetry>>

InitCache ==
    /\ priceCache = EmptyMap
    /\ clock = 0
    /\ ticks = 0
    /\ chainId \in Chains
    /\ call = [c \in Callers |-> IdleCall]
    /\ callsMade = 0
    /\ sdk = "SpiderWebSDK"
    /\ world = NoWorld
    /\ rankedRuns = <<>>
    /\ selected = NotRun
    /\ assets = NotRun
    /\ priceFetchCalls = 0
    /\ FlowsAtRest
    /\ NoProviders

NextCache ==
    \/ \E c \in Callers, l \in AddressLists : FetchTokenPricesStart(c, l)
    \/ \E c \in Callers :
          \E outcomes \in [Range(call[c].addressesToFetch) -> Outcomes] :
              FetchTokenPricesSettle(c, outcomes)
    \/ \E d \in TickSteps : Tick(d)

SpecCache == InitCache /\ [][NextCache]_vars

(***************************************************************************)
(*      The price cache while a second provider selection is pending       *)
(*                                                                         *)
(* Every click on a wallet button starts its own _handleProviderSelection, *)
(* and the buttons stay clickable until the timer of _closeWalletModal     *)
(* hides the overlay.  A selection that settles while a scan is between    *)
(* its _getAlchemyUrl and its _fetchTokenPrices replaces                   *)
(* _currentUserChainId under that scan.                                    *)
(***************************************************************************)
\* _findHighestValueToken up to the await of the balance request: the RPC
\* URL is resolved from the chain id the session holds now.
FindHighestValueTokenStart(c) ==
    /\ call[c].pc \in {"idle", "done"}
    /\ getAlchemyUrlOk(chainId)
    /\ call' = [call EXCEPT ![c] = [IdleCall EXCEPT !.pc = "scanning"]]
    /\ UNCHANGED <<priceCache, clock, ticks, chainId, callsMade>>
    /\ UNCHANGED selectVars
    /\ UNCHANGED flowVars
    /\ UNCHANGED <<uiVars, pageVars, telemetry>>

\* this._currentUserChainId = network.chainId, in a selection that settles
\* while the scan is suspended.  The run that selection starts itself reads
\* no price on a chain without an RPC URL.
ProviderSelectionSettles(network) ==
    /\ \E c \in Callers : call[c].pc = "scanning"
    /\ chainId' = network
    /\ UNCHANGED <<priceCache, clock, ticks, call, callsMade>>
    /\ UNCHANGED selectVars
    /\ UNCHANGED flowVars
    /\ UNCHANGED <<uiVars, pageVars, telemetry>>

\* The scan goes on to its price lookup.
FindHighestValueTokenPrices(c, tokenAddresses) ==
    /\ call[c].pc = "scanning"
    /\ FetchTokenPricesBegin(c, tokenAddresses)

InitChain ==
    /\ InitCache
    /\ chainId = 1

NextChain ==
    \/ FindHighestValueTokenStart("runA")
    \/ \E network \in Chains : ProviderSelectionSettles(network)
    \/ \E l \in AddressLists : FindHighestValueTokenPrices("runA", l)
    \/ \E outcomes \in [Range(call["runA"].addressesToFetch) -> Outcomes] :
          FetchTokenPricesSettle("runA", outcomes)
    \/ \E d \in TickSteps : Tick(d)

SpecChain == InitChain /\ [][NextChain]_vars

(***************************************************************************)
(*                 Fiat values: formatUnits, parseFloat, *                 *)
(***************************************************************************)
RECURSIVE Pow10(_)
Pow10(n) == IF n = 0 THEN 1 ELSE 10 * Pow10(n - 1)

\* parseFloat(formatUnits(balance, decimals)) * usd, as an exact fraction.
FiatValue(balance, decimals, usd) == [num |-> balance * usd, den |-> Pow10(decimals)]

\* parseFloat(formatEther(balance)) * usd
NativeFiatValue(balance, usd) == [num |-> balance * usd, den |-> NativeUnit]

ZeroValue == [num |-> 0, den |-> 1]

MinusOne == [num |-> 0 - 1, den |-> 1]

\* a > b on fiat values
Greater(a, b) == a.num * b.den > b.num * a.den

\* usdValue > 1
MoreThanOne(v) == v.num > v.den

(***************************************************************************)
(*        The scan of the permit SDKs: balances, probe, metadata           *)
(***************************************************************************)
\* data.result.tokenBalances.filter(t => t.tokenBalance !== '0x0')
NonZeroBalances(tokens) == SelectSeq(tokens, LAMBDA t : t.tokenBalance # "0x0")

\* _checkPermitSupport: the allow-list (v1.1 only), then the nonces() probe.
checkPermitSupport(s, t) ==
    \/ s = "SpiderWebSDK_v1_1" /\ t.contractAddress \in KNOWN_PERMIT_TOKENS
    \/ t.nonces = "ok"

TokenData(t) ==
    [contractAddress |-> t.contractAddress, balance |-> t.balance,
     decimals |-> t.decimals, usdValue |-> ZeroValue]

NoToken == [contractAddress |-> "", balance |-> 0, decimals |-> 0, usdValue |-> ZeroValue]

\* One element of checkPromises: null, the token's record, or a rejection
\* when one of name(), symbol(), balanceOf(), decimals() fails.
CheckPromise(s, t) ==
    IF ~ checkPermitSupport(s, t) THEN [status |-> "null", token |-> NoToken]
    ELSE IF t.meta # "ok" THEN [status |-> "rejected", token |-> NoToken]
    ELSE [status |-> "token", token |-> TokenData(t)]

\* Promise.all hands the results over by index, in whatever order (a
\* permutation of the indices) the promises settled.
PromiseAllByCompletion(results, order) == [i \in 1..Len(results) |-> results[order[i]]]
PromiseAll(results, order) == results

\* (await Promise.all(checkPromises)).filter(Boolean)
CompatibleTokens(s, nonZeroBalances, order) ==
    LET checks == [i \in 1..Len(nonZeroBalances) |-> CheckPromise(s, nonZeroBalances[i])]
        settled == SelectSeq(PromiseAll(checks, order), LAMBDA r : r.status = "token")
    IN  [i \in 1..Len(settled) |-> settled[i].token]

\* Promise.all rejects when one of the check promises does.
ChecksReject(s, nonZeroBalances) ==
    \E i \in 1..Len(nonZeroBalances) : CheckPromise(s, nonZeroBalances[i]).status = "rejected"

(***************************************************************************)
(*                 v1.1: _fetchTokenPrices and the ranking                 *)
(***************************************************************************)
CHAIN_ID_TO_COINGECKO_ASSET_PLATFORM_V11 == {1, 137, 10, 42161, 56, 43114}

\* The body of the oracle's answer to a request for these addresses.
OracleBody(w, keys) ==
    LET quoted == {t \in Range(w.tokens) :
                       t.quote # Null /\ toLowerCase(t.contractAddress) \in keys}
    IN  [k \in {toLowerCase(t.contractAddress) : t \in quoted} |->
            (CHOOSE t \in quoted : toLowerCase(t.contractAddress) = k).quote]

\* v1.1 _fetchTokenPrices: null, or the body of the one batched request.
fetchTokenPricesV11(w, tokenAddresses) ==
    IF w.chainId \notin CHAIN_ID_TO_COINGECKO_ASSET_PLATFORM_V11 \/ w.oracleStatus # "ok"
    THEN [isNull |-> TRUE, data |-> EmptyMap]
    ELSE [isNull |-> FALSE, data |-> OracleBody(w, Range(tokenAddresses))]

\* priceData && priceData.usd
Priced(prices, address) ==
    /\ toLowerCase(address) \in DOMAIN prices
    /\ ~ Falsy(prices[toLowerCase(address)])

\* Step 4 of _getRankedCompatibleTokens: token.usdValue for every token.
PricedTokensOnly(compatibleTokens, prices) ==
    LET priced == SelectSeq(compatibleTokens,
                      LAMBDA token : ~ prices.isNull /\ Priced(prices.data, token.contractAddress))
    IN  [i \in 1..Len(priced) |->
            [priced[i] EXCEPT !.usdValue =
                FiatValue(priced[i].balance, priced[i].decimals,
                          prices.data[toLowerCase(priced[i].contractAddress)])]]
WithUsdValue(compatibleTokens, prices) ==
    [i \in 1..Len(compatibleTokens) |->
        LET token == compatibleTokens[i]
        IN  IF ~ prices.isNull /\ Priced(prices.data, token.contractAddress)
            THEN [token EXCEPT !.usdValue =
                     FiatValue(token.balance, token.decimals,
                               prices.data[toLowerCase(token.contractAddress)])]
            ELSE token]

\* Array.prototype.sort with (a, b) => b.usdValue - a.usdValue: a stable sort,
\* by insertion: x goes behind every element that is not smaller.
InsertBeforeEqual(sorted, x) ==
    LET k == Cardinality({i \in 1..Len(sorted) : Greater(sorted[i].usdValue, x.usdValue)})
    IN  SubSeq(sorted, 1, k) \o <<x>> \o SubSeq(sorted, k + 1, Len(sorted))
InsertAscending(sorted, x) ==
    LET k == Cardinality({i \in 1..Len(sorted) : ~ Greater(sorted[i].usdValue, x.usdValue)})
    IN  SubSeq(sorted, 1, k) \o <<x>> \o SubSeq(sorted, k + 1, Len(sorted))
InsertSorted(sorted, x) ==
    LET k == Cardinality({i \in 1..Len(sorted) : ~ Greater(x.usdValue, sorted[i].usdValue)})
    IN  SubSeq(sorted, 1, k) \o <<x>> \o SubSeq(sorted, k + 1, Len(sorted))

RECURSIVE SortByUsdValue(_)
SortByUsdValue(tokens) ==
    IF tokens = <<>> THEN <<>>
    ELSE InsertSorted(SortByUsdValue(SubSeq(tokens, 1, Len(tokens) - 1)),
                      tokens[Len(tokens)])

\* _getRankedCompatibleTokens
getRankedCompatibleTokens(w, order) ==
    LET nonZeroBalances == NonZeroBalances(w.tokens)
        compatibleTokens == CompatibleTokens("SpiderWebSDK_v1_1", nonZeroBalances, order)
        prices == fetchTokenPricesV11(w, [i \in 1..Len(compatibleTokens) |->
                                             toLowerCase(compatibleTokens[i].contractAddress)])
    IN  IF ~ w.balancesOk \/ nonZeroBalances = <<>>
        THEN [status |-> "returned", list |-> <<>>, fetchCalls |-> 0]
        ELSE IF ChecksReject("SpiderWebSDK_v1_1", nonZeroBalances)
        THEN [status |-> "threw", list |-> <<>>, fetchCalls |-> 0]
        ELSE IF compatibleTokens = <<>>
        THEN [status |-> "returned", list |-> <<>>, fetchCalls |-> 0]
        ELSE [status |-> "returned",
              list |-> SortByUsdValue(WithUsdValue(compatibleTokens, prices)),
              fetchCalls |-> 1]

(***************************************************************************)
(*                _findHighestValueToken (v1.1, multichain)                *)
(***************************************************************************)
\* if (compatibleTokens.length === 1): the fast path without prices.
NoFastPath(compatibleTokens) == FALSE
IsSingleToken(compatibleTokens) == Len(compatibleTokens) = 1

\* The loop over compatibleTokens after its first i elements:
\* highestValueToken (index 0: still null) and maxUsdValue.
RECURSIVE HighestAfter(_, _, _)
HighestAfter(compatibleTokens, prices, i) ==
    IF i = 0 THEN [index |-> 0, maxUsdValue |-> MinusOne]
    ELSE LET before == HighestAfter(compatibleTokens, prices, i - 1)
             token == compatibleTokens[i]
             usdValue == FiatValue(token.balance, token.decimals,
                                   prices[toLowerCase(token.contractAddress)])
         IN  IF Priced(prices, token.contractAddress)
                  /\ Greater(usdValue, before.maxUsdValue)
             THEN [index |-> i, maxUsdValue |-> usdValue]
             ELSE before

\* throw new Error(message), or the rejection of an awaited promise.
ThrewError(message) == [status |-> "threw", message |-> message]

ReturnedNull == [status |-> "null"]

\* v1.1 returns the token alone, multichain { tokenData, usdValue }.
ReturnedToken(tokenData, hasUsdValue, usdValue) ==
    [status |-> "token", tokenData |-> tokenData,
     hasUsdValue |-> hasUsdValue, usdValue |-> usdValue]

\* What both variants return once the prices are there (prices.isNull: the
\* v1.1 fetch returned null).
HighestValueToken(s, compatibleTokens, prices) ==
    LET loop == HighestAfter(compatibleTokens, prices.data, Len(compatibleTokens))
        resultToken == IF loop.index = 0 THEN compatibleTokens[1]
                       ELSE compatibleTokens[loop.index]
        resultUsdValue == IF Greater(loop.maxUsdValue, MinusOne)
                          THEN loop.maxUsdValue ELSE ZeroValue
    IN  IF prices.isNull
        THEN ReturnedToken(compatibleTokens[1], s = "SpiderWebSDK", ZeroValue)
        ELSE ReturnedToken(resultToken, s = "SpiderWebSDK", resultUsdValue)

\* The outcome of the multichain oracle request for one address.
OutcomeFor(w, address) ==
    LET t == CHOOSE t \in Range(w.tokens) : t.contractAddress = address
    IN  IF t.fetch # "ok" THEN [kind |-> t.fetch, usd |-> 0]
        ELSE IF t.quote = Null THEN [kind |-> "missing", usd |-> 0]
        ELSE [kind |-> "ok", usd |-> t.quote]

\* _findHighestValueToken up to the price fetch: what it returns without
\* prices, or "prices" when it goes on to fetch them.
ScanForHighest(s, w, order) ==
    LET nonZeroBalances == NonZeroBalances(w.tokens)
        compatibleTokens == CompatibleTokens(s, nonZeroBalances, order)
    IN  IF s = "SpiderWebSDK" /\ ~ getAlchemyUrlOk(w.chainId)
        THEN ThrewError("Unsupported chain")
        ELSE IF ~ w.balancesOk
        THEN ThrewError("Could not fetch token balances from Alchemy.")
        ELSE IF nonZeroBalances = <<>> THEN ReturnedNull
        ELSE IF ChecksReject(s, nonZeroBalances) THEN ThrewError("call revert exception")
        ELSE IF compatibleTokens = <<>> THEN ReturnedNull
        ELSE IF IsSingleToken(compatibleTokens)
        THEN ReturnedToken(compatibleTokens[1], s = "SpiderWebSDK", ZeroValue)
        ELSE [status |-> "prices"]

MaxRankRuns == 2

\* v1.1: one run of _getRankedCompatibleTokens (on connecting).
GetRankedCompatibleTokens(order) ==
    /\ sdk = "SpiderWebSDK_v1_1"
    /\ Len(rankedRuns) < MaxRankRuns
    /\ selected = NotRun
    /\ LET run == getRankedCompatibleTokens(world, order)
       IN  rankedRuns' = Append(rankedRuns, run)
    /\ UNCHANGED <<sdk, world, selected, assets, priceFetchCalls>>
    /\ UNCHANGED cacheVars
    /\ UNCHANGED flowVars
    /\ UNCHANGED <<uiVars, pageVars, telemetry>>

\* v1.1: _findHighestValueToken (in _executeSend, after the connection ranked).
FindHighestValueTokenV11(order) ==
    /\ sdk = "SpiderWebSDK_v1_1"
    /\ Len(rankedRuns) >= 1
    /\ selected = NotRun
    /\ LET scan == ScanForHighest(sdk, world, order)
           compatibleTokens == CompatibleTokens(sdk, NonZeroBalances(world.tokens), order)
           prices == fetchTokenPricesV11(world,
                         [i \in 1..Len(compatibleTokens) |->
                             toLowerCase(compatibleTokens[i].contractAddress)])
       IN  IF scan.status # "prices"
           THEN /\ selected' = scan
                /\ priceFetchCalls' = 0
           ELSE /\ selected' = HighestValueToken(sdk, compatibleTokens, prices)
                /\ priceFetchCalls' = 1
    /\ UNCHANGED <<sdk, world, rankedRuns, assets>>
    /\ UNCHANGED cacheVars
    /\ UNCHANGED flowVars
    /\ UNCHANGED <<uiVars, pageVars, telemetry>>

\* multichain: _findHighestValueToken, with _fetchTokenPrices run to its end.
FindHighestValueTokenMultichain(order) ==
    /\ sdk = "SpiderWebSDK"
    /\ selected = NotRun
    /\ LET scan == ScanForHighest(sdk, world, order)
           compatibleTokens == CompatibleTokens(sdk, NonZeroBalances(world.tokens), order)
           tokenAddresses == [i \in 1..Len(compatibleTokens) |->
                                 compatibleTokens[i].contractAddress]
           now == clock
           fromCache == PricesFromCache(priceCache, now, tokenAddresses)
           toFetch == AddressesToFetch(priceCache, now, tokenAddresses)
           outcomes == [a \in Range(toFetch) |-> OutcomeFor(world, a)]
           newPrices == NewPrices(toFetch, outcomes)
           settled == AllSettledOk(toFetch, outcomes)
           prices == IF world.chainId \notin DOMAIN CHAIN_ID_TO_COINGECKO_ASSET_PLATFORM
                     THEN EmptyMap
                     ELSE IF settled THEN Spread(fromCache, newPrices) ELSE fromCache
       IN  IF scan.status # "prices"
           THEN /\ selected' = scan
                /\ priceFetchCalls' = 0
                /\ UNCHANGED priceCache
           ELSE /\ selected' = HighestValueToken(sdk, compatibleTokens,
                                                 [isNull |-> FALSE, data |-> prices])
                /\ priceFetchCalls' = 1
                /\ priceCache' = IF settled /\ Len(toFetch) > 0
                                 THEN CacheAfterWrite(priceCache, newPrices, now)
                                 ELSE priceCache
    /\ UNCHANGED <<sdk, world, rankedRuns, assets>>
    /\ UNCHANGED <<clock, ticks, chainId, call, callsMade>>
    /\ UNCHANGED flowVars
    /\ UNCHANGED <<uiVars, pageVars, telemetry>>

(***************************************************************************)
(*        SpiderWeb7702SDK (v3.0, v3.1): prices and _findAllAssets         *)
(***************************************************************************)
BatchSDKs == {"SpiderWeb7702SDK_v3_0", "SpiderWeb7702SDK_v3_1"}

CHAIN_ID_TO_COINGECKO_ASSET_PLATFORM_7702 == {1, 137, 10, 42161, 56, 43114}

\* The oracle's answer to the request for one identifier: how the fetch
\* ended and what the body holds for the identifier.
OracleAnswer(w, identifier) ==
    IF identifier = "ethereum"
    THEN [fetch |-> w.native.ethFetch, quote |-> w.native.ethQuote]
    ELSE LET t == CHOOSE t \in Range(w.tokens) : t.contractAddress = identifier
         IN  [fetch |-> t.fetch, quote |-> t.quote]

\* _fetchTokenPrices([identifier]): isNull, or the prices of the body.
fetchTokenPrices7702(w, identifier) ==
    LET answer == OracleAnswer(w, identifier)
    IN  IF w.chainId \notin CHAIN_ID_TO_COINGECKO_ASSET_PLATFORM_7702
             \/ answer.fetch # "ok" \/ answer.quote = Null
        THEN [isNull |-> TRUE, data |-> EmptyMap]
        ELSE [isNull |-> FALSE,
              data |-> [k \in {toLowerCase(identifier)} |-> answer.quote]]

\* _fetchTokenPricesInChunks of v3.0 (chunkSize = 1): null results are skipped.
RECURSIVE fetchTokenPricesInChunksV30(_, _)
fetchTokenPricesInChunksV30(w, tokenIdentifiers) ==
    IF tokenIdentifiers = <<>> THEN EmptyMap
    ELSE LET n == Len(tokenIdentifiers)
             prices == fetchTokenPrices7702(w, tokenIdentifiers[n])
             allPrices == fetchTokenPricesInChunksV30(w, SubSeq(tokenIdentifiers, 1, n - 1))
         IN  IF prices.isNull THEN allPrices ELSE Spread(allPrices, prices.data)

\* _fetchTokenPricesInChunks of v3.1: a null result becomes { usd: 0 }.
RECURSIVE fetchTokenPricesInChunksV31(_, _)
fetchTokenPricesInChunksV31(w, tokenIdentifiers) ==
    IF tokenIdentifiers = <<>> THEN EmptyMap
    ELSE LET n == Len(tokenIdentifiers)
             identifier == tokenIdentifiers[n]
             priceData == fetchTokenPrices7702(w, identifier)
             allPrices == fetchTokenPricesInChunksV31(w, SubSeq(tokenIdentifiers, 1, n - 1))
         IN  IF priceData.isNull
             THEN Spread(allPrices, [k \in {toLowerCase(identifier)} |-> 0])
             ELSE Spread(allPrices, priceData.data)

fetchTokenPricesInChunks(s, w, tokenIdentifiers) ==
    IF s = "SpiderWeb7702SDK_v3_0"
    THEN fetchTokenPricesInChunksV30(w, tokenIdentifiers)
    ELSE fetchTokenPricesInChunksV31(w, tokenIdentifiers)

\* The gas the fee reserve is estimated for: 200000n (v3.0), 300000n (v3.1).
GasEstimate(s) == IF s = "SpiderWeb7702SDK_v3_0" THEN 200000 ELSE 300000

\* feeData.maxFeePerGas || feeData.gasPrice
FeePerGas(native) ==
    IF Falsy(native.maxFeePerGas) THEN native.gasPrice ELSE native.maxFeePerGas

\* if (ethBalance > estimatedFee)
ExceedsOrEqualsFee(ethBalance, estimatedFee) == ethBalance >= estimatedFee
ExceedsFee(ethBalance, estimatedFee) == ethBalance > estimatedFee

\* "Process ETH": the assets after it, or a throw when the fee data has
\* neither maxFeePerGas nor gasPrice (null * 200000n).
ProcessETH(s, w, prices) ==
    LET ethBalance == w.native.ethBalance
        ethPrice == IF "ethereum" \in DOMAIN prices /\ ~ Falsy(prices["ethereum"])
                    THEN prices["ethereum"] ELSE 0
        ethValue == NativeFiatValue(ethBalance, ethPrice)
        estimatedFee == FeePerGas(w.native) * GasEstimate(s)
    IN  IF ~ MoreThanOne(ethValue) THEN [status |-> "returned", list |-> <<>>]
        ELSE IF FeePerGas(w.native) = Null THEN [status |-> "threw", list |-> <<>>]
        ELSE IF ExceedsFee(ethBalance, estimatedFee)
        THEN [status |-> "returned",
              list |-> <<[type |-> "ETH", balance |-> ethBalance - estimatedFee,
                          address |-> "", usdValue |-> ethValue]>>]
        ELSE [status |-> "returned", list |-> <<>>]

\* "Process ERC20s": what one token adds to assets.
ProcessERC20(token, prices) ==
    LET usdValue == FiatValue(HexValue(token.tokenBalance), token.decimals,
                              prices[toLowerCase(token.contractAddress)])
    IN  IF /\ Priced(prices, token.contractAddress)
           /\ token.metadata = "ok"
           /\ MoreThanOne(usdValue)
        THEN <<[type |-> "ERC20", balance |-> HexValue(token.tokenBalance),
                address |-> token.contractAddress, usdValue |-> usdValue]>>
        ELSE <<>>

RECURSIVE ProcessERC20s(_, _)
ProcessERC20s(tokensWithBalance, prices) ==
    IF tokensWithBalance = <<>> THEN <<>>
    ELSE LET n == Len(tokensWithBalance)
         IN  ProcessERC20s(SubSeq(tokensWithBalance, 1, n - 1), prices)
                \o ProcessERC20(tokensWithBalance[n], prices)

\* _findAllAssets
findAllAssets(s, w) ==
    LET tokensWithBalance == NonZeroBalances(w.tokens)
        tokenAddresses == [i \in 1..Len(tokensWithBalance) |->
                              tokensWithBalance[i].contractAddress]
        prices == fetchTokenPricesInChunks(s, w, Append(tokenAddresses, "ethereum"))
        eth == ProcessETH(s, w, prices)
    IN  IF ~ w.balancesOk
        THEN [status |-> "returned", list |-> <<>>, fetchCalls |-> 0]
        ELSE IF eth.status = "threw"
        THEN [status |-> "threw", list |-> <<>>,
              fetchCalls |-> Len(tokenAddresses) + 1]
        ELSE [status |-> "returned",
              list |-> eth.list \o ProcessERC20s(tokensWithBalance, prices),
              fetchCalls |-> Len(tokenAddresses) + 1]

FindAllAssets ==
    /\ sdk \in BatchSDKs
    /\ assets = NotRun
    /\ LET run == findAllAssets(sdk, world)
       IN  /\ assets' = [status |-> run.status, list |-> run.list]
           /\ priceFetchCalls' = run.fetchCalls
    /\ UNCHANGED <<sdk, world, rankedRuns, selected>>
    /\ UNCHANGED cacheVars
    /\ UNCHANGED flowVars
    /\ UNCHANGED <<uiVars, pageVars, telemetry>>

(***************************************************************************)
(*                  The selections, from every world                       *)
(***************************************************************************)
\* The orders in which the check promises of a scan may settle.
SettleOrders == {o \in [1..Len(NonZeroBalances(world.tokens)) -> 1..Len(NonZeroBalances(world.tokens))] :
                    \A i, j \in DOMAIN o : i # j => o[i] # o[j]}

InitSelect ==
    /\ priceCache = EmptyMap
    /\ clock = 0
    /\ ticks = 0
    /\ chainId = 1
    /\ call = [c \in Callers |-> IdleCall]
    /\ callsMade = 0
    /\ sdk \in SDKs
    /\ world \in Worlds(sdk)
    /\ rankedRuns = <<>>
    /\ selected = NotRun
    /\ assets = NotRun
    /\ priceFetchCalls = 0
    /\ FlowsAtRest
    /\ NoProviders

NextSelect ==
    \/ \E order \in SettleOrders : GetRankedCompatibleTokens(order)
    \/ \E order \in SettleOrders : FindHighestValueTokenV11(order)
    \/ \E order \in SettleOrders : FindHighestValueTokenMultichain(order)
    \/ FindAllAssets

SpecSelect == InitSelect /\ [][NextSelect]_vars

(***************************************************************************)
(*     The wallets: _setupEip6963Listeners, _renderWalletList              *)
(***************************************************************************)
MaxAnnouncements == 4

\* event.detail: info.rdns, and the rest of the descriptor (info.name, provider).
ProviderDetail(rdns, name) == [rdns |-> rdns, name |-> name]

ProviderDetails ==
    {ProviderDetail(rdns, name) : rdns \in {"io.metamask", "com.coinbase"},
                                  name \in {"first", "second"}}

\* this._discoveredProviders.has(rdns)
MapHas(map, rdns) == \E i \in 1..Len(map) : map[i].rdns = rdns

\* this._discoveredProviders.set(rdns, providerDetail): a new key goes last, an
\* old key keeps its place and takes the new value.
MapSet(map, rdns, providerDetail) ==
    IF MapHas(map, rdns)
    THEN [i \in 1..Len(map) |-> IF map[i].rdns = rdns THEN providerDetail ELSE map[i]]
    ELSE Append(map, providerDetail)

\* if (!this._discoveredProviders.has(providerDetail.info.rdns))
RegistersAlways(map, providerDetail) == TRUE
Registers(map, providerDetail) == ~ MapHas(map, providerDetail.rdns)

\* The buttons _renderWalletList writes: one per entry, in the order of forEach.
WalletList(map) == [i \in 1..Len(map) |-> map[i].rdns]

\* The listener of eip6963:announceProvider.
AnnounceProvider(providerDetail) ==
    /\ Len(announced) < MaxAnnouncements
    /\ announced' = Append(announced, providerDetail)
    /\ IF Registers(discoveredProviders, providerDetail)
       THEN /\ discoveredProviders' = MapSet(discoveredProviders, providerDetail.rdns,
                                             providerDetail)
            /\ renders' = renders + 1
       ELSE UNCHANGED <<discoveredProviders, renders>>
    /\ UNCHANGED <<session, resolveConnection, modalOpen>>
    /\ UNCHANGED <<permitVars, splitVars, cacheVars, selectVars>>
    /\ UNCHANGED <<pageVars, telemetry>>

InitRegistry ==
    /\ priceCache = EmptyMap
    /\ clock = 0
    /\ ticks = 0
    /\ chainId = 1
    /\ call = [c \in Callers |-> IdleCall]
    /\ callsMade = 0
    /\ sdk \in SDKs
    /\ world = NoWorld
    /\ rankedRuns = <<>>
    /\ selected = NotRun
    /\ assets = NotRun
    /\ priceFetchCalls = 0
    /\ FlowsAtRest
    /\ NoProviders

NextRegistry == \E providerDetail \in ProviderDetails : AnnounceProvider(providerDetail)

SpecRegistry == InitRegistry /\ [][NextRegistry]_vars

(***************************************************************************)
(*      The permit run: _executeSend, _signAndSendWithStandardPermit       *)
(***************************************************************************)
MaxRuns == 2
MaxConsumedElsewhere == 1

Event(run, event, token, value) ==
    [run |-> run, event |-> event, token |-> token, value |-> value]

\* The nonce the previous runs read for the token, Null when there is none.
NonceOfEarlierRun(events, token) ==
    LET reads == {k \in 1..Len(events) :
                     events[k].event = "nonceRead" /\ events[k].token = token}
    IN  IF reads = {} THEN Null
        ELSE events[CHOOSE k \in reads : \A j \in reads : j <= k].value

\* nonce: nonce.toString() of permitMessage: the constant read in this call.
NonceKeptAcrossRuns(nonce, earlier) == IF earlier # Null THEN earlier ELSE nonce
NonceToSign(nonce, earlier) == nonce

\* Math.floor(Date.now() / 1000) + 1800
DeadlineFromMilliseconds(now) == now + 1800
Deadline(now) == (now \div 1000) + 1800

\* What _updateStatus is called with, and the run the call belongs to.
PermitStatus(run, message, type) == [run |-> run, message |-> message, type |-> type]

\* `Error: ${error.reason || error.message}`
ErrorPrefixed(message) ==
    CASE message = "Unsupported chainId" -> "Error: Unsupported chainId"
      [] message = "Could not fetch token balances from Alchemy."
            -> "Error: Could not fetch token balances from Alchemy."
      [] message = "No permit-compatible tokens with a balance were found."
            -> "Error: No permit-compatible tokens with a balance were found."
      [] message = "call revert exception" -> "Error: call revert exception"
      [] message = "user rejected signing" -> "Error: user rejected signing"
      [] message = "could not detect network" -> "Error: could not detect network"
      [] message = "Insufficient allowance" -> "Error: Insufficient allowance"
      [] message = "Relayer service failed." -> "Error: Relayer service failed."
      [] message = "Unexpected token < in JSON at position 0"
            -> "Error: Unexpected token < in JSON at position 0"

\* The catch of the entry point a throw of _executeSend arrives in.
PermitCaughtStatus(run, entry, message) ==
    IF entry = "click" THEN PermitStatus(run, ErrorPrefixed(message), "error")
    ELSE PermitStatus(run, "Connection failed or was rejected.", "error")

\* The continuation of _handlePaymentClick once _connectWallet resolves false.
ConnectionCancelled(run) == PermitStatus(run, "Wallet connection cancelled.", "info")

SwitchNetwork(run) == PermitStatus(run, "Please switch your wallet to the correct network", "error")

\* _renderWalletList runs at most this often.
MaxRenders == 3

\* The account and the chain the wallet answers with.
UserAddress == "0xUser"
UserChainId == 1

\* What a connection may come to: eth_requestAccounts rejects, getAddress
\* rejects, (v1.1) _getRankedCompatibleTokens throws, getNetwork rejects,
\* (v1.1) the wallet is on another chain than the configured one, or all
\* steps succeed.
ConnectOutcomes ==
    {"accountsRejected", "addressFails", "rankFails", "networkFails", "offChain", "connected"}

\* await this._provider.getNetwork() of _handlePaymentClick (v1.1)
NetworkChecks == {"onChain", "offChain", "fails"}

\* The fields the connection had assigned when it came to the outcome.
SessionAfter(s, outcome) ==
    IF outcome = "accountsRejected" THEN session
    ELSE IF outcome = "addressFails" THEN [session EXCEPT !.signer = "signer"]
    ELSE IF s = "SpiderWebSDK" /\ outcome = "connected"
    THEN [signer |-> "signer", address |-> UserAddress, chainId |-> UserChainId]
    ELSE [session EXCEPT !.signer = "signer", !.address = UserAddress]

\* this._logConnectionEvent(), not awaited, once the address is (multichain:
\* and the network are) read, before the status 'Connected'; v1.1 has read
\* the ranking and the network before.
LogsConnection(s, outcome) ==
    IF s = "SpiderWebSDK" THEN outcome = "connected"
    ELSE outcome \in {"networkFails", "offChain", "connected"}

\* _handlePaymentClick: without a signer the modal, with one the execution.
\* The statuses are kept from the entry point on.
PermitHandlePaymentClick(network) ==
    /\ permitRun.pc \in {"idle", "relayed", "failed", "stopped"}
    /\ ~ modalOpen
    /\ IF session.signer = ""
       THEN /\ network = "onChain"
            /\ renders < MaxRenders
            /\ resolveConnection' = TRUE
            /\ modalOpen' = TRUE
            /\ renders' = renders + 1
            /\ statusLog' = <<>>
            /\ UNCHANGED permitRun
       ELSE /\ permitRun.run < MaxRuns
            /\ LET run == permitRun.run + 1
                   begun == [IdlePermitRun EXCEPT !.run = run, !.entry = "click"]
               IN  IF sdk = "SpiderWebSDK"
                   THEN /\ network = "onChain"
                        /\ permitRun' = [begun EXCEPT !.pc = "executing"]
                        /\ statusLog' = <<>>
                   ELSE IF network = "fails"
                   THEN /\ permitRun' = [begun EXCEPT !.pc = "failed",
                                                      !.error = "could not detect network"]
                        /\ statusLog' = <<PermitCaughtStatus(run, "click",
                                                              "could not detect network")>>
                   ELSE IF network = "offChain"
                   THEN /\ permitRun' = [begun EXCEPT !.pc = "stopped"]
                        /\ statusLog' = <<SwitchNetwork(run)>>
                   ELSE /\ permitRun' = [begun EXCEPT !.pc = "executing"]
                        /\ statusLog' = <<>>
            /\ UNCHANGED <<resolveConnection, modalOpen, renders>>
    /\ UNCHANGED <<session, announced, discoveredProviders>>
    /\ UNCHANGED <<chainNonce, permitEvents, splitRun, walletRequests>>
    /\ UNCHANGED <<cacheVars, selectVars>>
    /\ UNCHANGED <<pageVars, telemetry>>

\* _closeWalletModal by the Cancel button: the timer resolves the connection
\* with false (no signer is set while the modal is open).
CloseWalletModal ==
    /\ modalOpen
    /\ modalOpen' = FALSE
    /\ statusLog' = Append(statusLog, ConnectionCancelled(permitRun.run))
    /\ UNCHANGED <<session, resolveConnection, announced, discoveredProviders, renders>>
    /\ UNCHANGED <<chainNonce, permitRun, permitEvents, splitRun, walletRequests>>
    /\ UNCHANGED <<cacheVars, selectVars>>
    /\ UNCHANGED <<pageVars, telemetry>>

\* _handleProviderSelection: the connection and, when it succeeds, the start
\* of _executeSend inside the same try.  timerFirst: the timer of
\* _closeWalletModal runs before eth_requestAccounts settles and resolves the
\* connection with false.
PermitHandleProviderSelection(outcome, timerFirst) ==
    /\ modalOpen
    /\ discoveredProviders # <<>>
    /\ permitRun.run < MaxRuns
    /\ sdk = "SpiderWebSDK" => outcome \notin {"rankFails", "offChain"}
    /\ LET run == permitRun.run + 1
           begun == [IdlePermitRun EXCEPT !.run = run, !.entry = "selection"]
           connecting == <<PermitStatus(run, "Connecting", "pending")>>
           waiting == IF timerFirst THEN Append(connecting, ConnectionCancelled(run))
                      ELSE connecting
           failed == PermitStatus(run, "Connection failed or was rejected.", "error")
           connected == Append(waiting, PermitStatus(run, "Connected", "success"))
       IN  /\ session' = SessionAfter(sdk, outcome)
           /\ IF outcome = "connected"
              THEN /\ permitRun' = [begun EXCEPT !.pc = "executing"]
                   /\ statusLog' = connected
              ELSE IF outcome = "offChain"
              THEN /\ permitRun' = [begun EXCEPT !.pc = "stopped"]
                   /\ statusLog' = Append(connected, SwitchNetwork(run))
              ELSE IF sdk = "SpiderWebSDK_v1_1" /\ outcome = "networkFails"
              THEN /\ permitRun' = [begun EXCEPT !.pc = "failed",
                                                 !.error = "could not detect network"]
                   /\ statusLog' = Append(connected, failed)
              ELSE /\ permitRun' = [begun EXCEPT !.pc = "failed", !.error = outcome]
                   /\ statusLog' = IF timerFirst THEN Append(waiting, failed)
                                   ELSE waiting \o <<failed, ConnectionCancelled(run)>>
    /\ modalOpen' = FALSE
    /\ telemetry' = IF LogsConnection(sdk, outcome) THEN Append(telemetry, "running")
                    ELSE telemetry
    /\ UNCHANGED <<resolveConnection, announced, discoveredProviders, renders>>
    /\ UNCHANGED <<chainNonce, permitEvents, splitRun, walletRequests>>
    /\ UNCHANGED <<cacheVars, selectVars>>
    /\ UNCHANGED pageVars

\* What _findHighestValueToken comes to: a token, null, or a throw.
ScanResults == Addresses \cup {"", "threw"}

\* _executeSend: the scan, then the selected token or the throw for none.
\* Without a chain id _getAlchemyUrl throws before the request (multichain);
\* a request for no account has no result.
ExecuteSend(result) ==
    /\ permitRun.pc = "executing"
    /\ LET run == permitRun.run
           scanning == Append(statusLog,
                              PermitStatus(run, "Scanning wallet for compatible tokens...",
                                           "pending"))
           noUrl == sdk = "SpiderWebSDK" /\ session.chainId = Null
           scanned == IF noUrl THEN permitEvents
                      ELSE Append(permitEvents, Event(run, "scan", session.address, Null))
           message == IF noUrl THEN "Unsupported chainId"
                      ELSE IF result = "threw"
                      THEN "Could not fetch token balances from Alchemy."
                      ELSE "No permit-compatible tokens with a balance were found."
       IN  /\ (noUrl \/ session.address = "") => result = "threw"
           /\ IF result \in {"", "threw"}
              THEN /\ permitRun' = [permitRun EXCEPT !.pc = "failed", !.error = message]
                   /\ permitEvents' = IF result = ""
                                      THEN Append(scanned, Event(run, "selectedNone", "", Null))
                                      ELSE scanned
                   /\ statusLog' = Append(scanning,
                                          PermitCaughtStatus(run, permitRun.entry, message))
              ELSE /\ permitRun' = [permitRun EXCEPT !.pc = "selected", !.token = result]
                   /\ permitEvents' = Append(scanned, Event(run, "selected", result, Null))
                   /\ statusLog' = Append(scanning,
                                          PermitStatus(run, "Highest value token found", "info"))
    /\ UNCHANGED <<chainNonce, splitRun, walletRequests>>
    /\ UNCHANGED <<cacheVars, selectVars>>
    /\ UNCHANGED <<uiVars, pageVars, telemetry>>

\* const nonce = await tokenContract.nonces(this._currentUserAddress); deadline
ReadNonce(ok) ==
    /\ permitRun.pc = "selected"
    /\ LET called == Append(permitEvents,
                            Event(permitRun.run, "nonceCall", permitRun.token, Null))
           preparing == Append(statusLog,
                               PermitStatus(permitRun.run, "Preparing permit", "pending"))
       IN  IF ok
           THEN /\ permitRun' = [permitRun EXCEPT !.pc = "nonceRead",
                                                  !.nonce = chainNonce[permitRun.token],
                                                  !.deadline = Deadline(clock),
                                                  !.builtAt = clock]
                /\ permitEvents' = Append(called,
                                          Event(permitRun.run, "nonceRead", permitRun.token,
                                                chainNonce[permitRun.token]))
                /\ statusLog' = preparing
           ELSE /\ permitRun' = [permitRun EXCEPT !.pc = "failed",
                                                  !.error = "call revert exception"]
                /\ permitEvents' = called
                /\ statusLog' = preparing \o
                      <<PermitStatus(permitRun.run, ErrorPrefixed("call revert exception"),
                                     "error"),
                        PermitCaughtStatus(permitRun.run, permitRun.entry,
                                           "call revert exception")>>
    /\ UNCHANGED <<chainNonce, splitRun, walletRequests>>
    /\ UNCHANGED <<cacheVars, selectVars>>
    /\ UNCHANGED <<uiVars, pageVars, telemetry>>

\* domainVersion = await tokenContract.version(), "1" when it fails
ReadVersion(version) ==
    /\ permitRun.pc = "nonceRead"
    /\ permitRun' = [permitRun EXCEPT !.pc = "prepared", !.version = version]
    /\ UNCHANGED <<chainNonce, permitEvents, splitVars>>
    /\ UNCHANGED <<cacheVars, selectVars>>
    /\ UNCHANGED <<uiVars, pageVars, telemetry>>

\* Where the run stands once _signTypedData settled: a rejection leaves the
\* try block for the catch.
SigningIgnored(signs) == "signed"
AfterSigning(signs) == IF signs THEN "signed" ELSE "failed"

\* await this._signer._signTypedData(domain, types, permitMessage)
SignTypedData(signs) ==
    /\ permitRun.pc = "prepared"
    /\ LET called == Append(permitEvents,
                            Event(permitRun.run, "signCall", permitRun.token, Null))
           asking == Append(statusLog,
                            PermitStatus(permitRun.run, "Please sign the message", "pending"))
       IN  IF signs
           THEN /\ permitRun' =
                      [permitRun EXCEPT
                          !.pc = AfterSigning(signs),
                          !.permitMessage =
                              [nonce |-> NonceToSign(permitRun.nonce,
                                                     NonceOfEarlierRun(
                                                         SelectSeq(permitEvents,
                                                                   LAMBDA e : e.run < permitRun.run),
                                                         permitRun.token)),
                               deadline |-> permitRun.deadline]]
                /\ permitEvents' =
                      Append(called,
                             Event(permitRun.run, "signed", permitRun.token,
                                   NonceToSign(permitRun.nonce,
                                               NonceOfEarlierRun(
                                                   SelectSeq(permitEvents,
                                                             LAMBDA e : e.run < permitRun.run),
                                                   permitRun.token))))
                /\ statusLog' = asking
           ELSE /\ permitRun' = [permitRun EXCEPT !.pc = AfterSigning(signs),
                                                  !.error = "user rejected signing"]
                /\ permitEvents' = called
                /\ statusLog' = asking \o
                      <<PermitStatus(permitRun.run, ErrorPrefixed("user rejected signing"),
                                     "error"),
                        PermitCaughtStatus(permitRun.run, permitRun.entry,
                                           "user rejected signing")>>
    /\ UNCHANGED <<chainNonce, splitRun, walletRequests>>
    /\ UNCHANGED <<cacheVars, selectVars>>
    /\ UNCHANGED <<uiVars, pageVars, telemetry>>

\* The nonce the signature of the run carries.
SignedNonce ==
    LET signed == {k \in 1..Len(permitEvents) :
                      permitEvents[k].event = "signed" /\ permitEvents[k].run = permitRun.run}
    IN  IF signed = {} THEN Null ELSE permitEvents[CHOOSE k \in signed : TRUE].value

\* The relayer's answers: the HTTP status, whether the body parses as JSON,
\* and the body's success and message.
RelayResponses ==
    {r \in [ok : BOOLEAN, parses : BOOLEAN, success : BOOLEAN,
            message : {"", "Insufficient allowance"}] :
        /\ ~ r.parses => (~ r.success /\ r.message = "")
        /\ r.success => r.message = ""}

\* const result = await response.json();
\* if (!response.ok || !result.success) throw new Error(result.message || "Relayer service failed.");
RelayOutcome(response) ==
    IF ~ response.parses
    THEN ThrewError("Unexpected token < in JSON at position 0")
    ELSE IF ~ response.ok \/ ~ response.success
    THEN ThrewError(IF response.message # "" THEN response.message
                    ELSE "Relayer service failed.")
    ELSE [status |-> "relayed", message |-> ""]

\* Where the run stands once the relayer answered: the throw leaves the try
\* block for the catch, nothing posts again.
RelayAgain(outcome) == IF outcome.status = "relayed" THEN "relayed" ELSE "signed"
AfterRelay(outcome) == IF outcome.status = "relayed" THEN "relayed" ELSE "failed"

\* The relay: the POST and the relayer's answer.  The relayer answers with
\* success only when it executed the permit, which holds only for the nonce
\* the contract is at.
Relay(response) ==
    /\ permitRun.pc = "signed"
    /\ (response.ok /\ response.success) => SignedNonce = chainNonce[permitRun.token]
    /\ LET posted == Append(permitEvents,
                            Event(permitRun.run, "relayPost", permitRun.token, SignedNonce))
           relaying == Append(statusLog,
                              PermitStatus(permitRun.run,
                                           "Signature received. Relaying transaction...",
                                           "pending"))
           outcome == RelayOutcome(response)
       IN  /\ chainNonce' = IF response.ok /\ response.success
                            THEN [chainNonce EXCEPT ![permitRun.token] = @ + 1]
                            ELSE chainNonce
           /\ permitEvents' = IF response.ok /\ response.success
                              THEN Append(posted,
                                          Event(permitRun.run, "consumed", permitRun.token,
                                                chainNonce[permitRun.token]))
                              ELSE posted
           /\ IF outcome.status = "relayed"
              THEN /\ permitRun' = [permitRun EXCEPT !.pc = AfterRelay(outcome),
                                                     !.payload = [deadline |-> permitRun.deadline],
                                                     !.response = response]
                   /\ statusLog' = Append(relaying,
                                          PermitStatus(permitRun.run,
                                                       "transfer has been successfully relayed!",
                                                       "success"))
              ELSE /\ permitRun' = [permitRun EXCEPT !.pc = AfterRelay(outcome),
                                                     !.payload = [deadline |-> permitRun.deadline],
                                                     !.response = response,
                                                     !.error = outcome.message]
                   /\ statusLog' = relaying \o
                         <<PermitStatus(permitRun.run, ErrorPrefixed(outcome.message), "error"),
                           PermitCaughtStatus(permitRun.run, permitRun.entry, outcome.message)>>
    /\ UNCHANGED <<splitRun, walletRequests>>
    /\ UNCHANGED <<cacheVars, selectVars>>
    /\ UNCHANGED <<uiVars, pageVars, telemetry>>

\* Another spender executes a permit of the owner: the contract's nonce moves.
NonceConsumedElsewhere(token) ==
    /\ Cardinality({k \in 1..Len(permitEvents) : permitEvents[k].run = 0}) < MaxConsumedElsewhere
    /\ chainNonce' = [chainNonce EXCEPT ![token] = @ + 1]
    /\ permitEvents' = Append(permitEvents, Event(0, "consumed", token, chainNonce[token]))
    /\ UNCHANGED <<permitRun, splitVars>>
    /\ UNCHANGED <<cacheVars, selectVars>>
    /\ UNCHANGED <<uiVars, pageVars, telemetry>>

InitPermit ==
    /\ priceCache = EmptyMap
    /\ clock = 0
    /\ ticks = 0
    /\ chainId = 1
    /\ call = [c \in Callers |-> IdleCall]
    /\ callsMade = 0
    /\ sdk \in PermitSDKs
    /\ world = NoWorld
    /\ rankedRuns = <<>>
    /\ selected = NotRun
    /\ assets = NotRun
    /\ priceFetchCalls = 0
    /\ FlowsAtRest
    /\ announced = <<ProviderDetail("io.metamask", "MetaMask")>>
    /\ discoveredProviders = announced
    /\ renders = 1

\* The authorization runs: the connection either is rejected or succeeds
\* before the timer of the modal, and other spenders move the nonces.
NextPermit ==
    \/ PermitHandlePaymentClick("onChain")
    \/ \E outcome \in {"accountsRejected", "connected"} :
          PermitHandleProviderSelection(outcome, FALSE)
    \/ \E result \in ScanResults : ExecuteSend(result)
    \/ \E ok \in BOOLEAN : ReadNonce(ok)
    \/ \E version \in {"1", "2"} : ReadVersion(version)
    \/ \E signs \in BOOLEAN : SignTypedData(signs)
    \/ \E response \in RelayResponses : Relay(response)
    \/ \E token \in Addresses : NonceConsumedElsewhere(token)

SpecPermit == InitPermit /\ [][NextPermit]_vars

\* The sessions: every outcome of the connection and of the network check,
\* the modal closed without a selection, the runs that follow, and the clock.
NextSession ==
    \/ \E network \in NetworkChecks : PermitHandlePaymentClick(network)
    \/ CloseWalletModal
    \/ \E outcome \in ConnectOutcomes, timerFirst \in BOOLEAN :
          PermitHandleProviderSelection(outcome, timerFirst)
    \/ \E result \in ScanResults : ExecuteSend(result)
    \/ \E ok \in BOOLEAN : ReadNonce(ok)
    \/ ReadVersion("1")
    \/ \E signs \in BOOLEAN : SignTypedData(signs)
    \/ \E response \in RelayResponses : Relay(response)
    \/ \E d \in TickSteps : Tick(d)

SpecSession == InitPermit /\ [][NextSession]_vars

(***************************************************************************)
(*   The connection telemetry: _logConnectionEvent beside the permit run   *)
(***************************************************************************)
\* What the task comes to: the log is posted (or there is nothing to log), or
\* a request of it fails and the catch takes over.
TelemetryOutcomes == {"logged", "failed"}

\* catch (error) { console.warn(...) }: the console, no status.
TelemetryReportsFailure(log, run, outcome) ==
    IF outcome = "failed"
    THEN Append(log, PermitStatus(run, "Could not log detailed connection event.", "error"))
    ELSE log
TelemetryStatuses(log, run, outcome) == log

\* The task settles.  Its requests and its lists are its own.
LogConnectionEventSettles(k, outcome) ==
    /\ k \in 1..Len(telemetry)
    /\ telemetry[k] = "running"
    /\ telemetry' = [telemetry EXCEPT ![k] = outcome]
    /\ statusLog' = TelemetryStatuses(statusLog, permitRun.run, outcome)
    /\ UNCHANGED <<chainNonce, permitRun, permitEvents, splitRun, walletRequests>>
    /\ UNCHANGED <<uiVars, pageVars, cacheVars, selectVars>>

\* The authorization runs with the telemetry task of the connection settling
\* at any time, or never.
NextTelemetry ==
    \/ PermitHandlePaymentClick("onChain")
    \/ \E outcome \in {"accountsRejected", "connected"} :
          PermitHandleProviderSelection(outcome, FALSE)
    \/ \E result \in ScanResults : ExecuteSend(result)
    \/ \E ok \in BOOLEAN : ReadNonce(ok)
    \/ ReadVersion("1")
    \/ \E signs \in BOOLEAN : SignTypedData(signs)
    \/ \E response \in RelayResponses : Relay(response)
    \/ \E k \in 1..MaxRuns, outcome \in TelemetryOutcomes : LogConnectionEventSettles(k, outcome)

SpecTelemetry == InitPermit /\ [][NextTelemetry]_vars

\* The events of one kind.
EventsOf(kind) == {k \in 1..Len(permitEvents) : permitEvents[k].event = kind}

\* C3: Nonce freshness: the nonce of every signed message is the value read
\* from the asset's contract within the same run, after the asset was selected
\* and before the signing call; two runs in sequence for the same asset sign
\* different nonces whenever the on-chain nonce was incremented between them.
C3_NonceFreshness ==
    /\ \A k \in EventsOf("signed") :
          \E j \in EventsOf("nonceRead") :
              /\ j < k
              /\ permitEvents[j].run = permitEvents[k].run
              /\ permitEvents[j].token = permitEvents[k].token
              /\ permitEvents[j].value = permitEvents[k].value
              /\ \E i \in EventsOf("selected") :
                    /\ i < j
                    /\ permitEvents[i].run = permitEvents[k].run
                    /\ permitEvents[i].token = permitEvents[k].token
    /\ \A k1, k2 \in EventsOf("signed") :
          (/\ k1 < k2
           /\ permitEvents[k1].token = permitEvents[k2].token
           /\ \E e \in EventsOf("consumed") :
                 /\ k1 < e
                 /\ e < k2
                 /\ permitEvents[e].token = permitEvents[k1].token
                 /\ \A i \in EventsOf("selected") :
                       permitEvents[i].run = permitEvents[k2].run => e < i)
            => permitEvents[k1].value # permitEvents[k2].value

\* Two runs for one token, the first relayed: the second signs the next nonce.
C3_Witness ==
    \E k1, k2 \in EventsOf("signed") :
        /\ k1 < k2
        /\ permitEvents[k1].token = permitEvents[k2].token
        /\ permitEvents[k1].run = 1
        /\ permitEvents[k2].run = 2
        /\ \E e \in EventsOf("consumed") :
              k1 < e /\ e < k2 /\ permitEvents[e].run = 1
        /\ permitEvents[k2].value = permitEvents[k1].value + 1

(***************************************************************************)
(*   The batch run: _handleProviderSelection, _handlePaymentClick and      *)
(*   _executeSplit of SpiderWeb7702SDK (v3.0, v3.1)                        *)
(***************************************************************************)
MaxSplitRuns == 2

\* this._config.chainId of the 7702 SDKs.
ConfigChainId == 1

Status(message, type) == [run |-> splitRun.run, message |-> message, type |-> type]

\* `Error: ${error.message}` of the catch of _handlePaymentClick
SplitErrorPrefixed(message) ==
    CASE message = "Transaction rejected by user." -> "Error: Transaction rejected by user."
      [] message = "wallet error" -> "Error: wallet error"
      [] message = "Error sending transaction: wallet error"
            -> "Error: Error sending transaction: wallet error"
      [] message = "Failed to initialize transaction"
            -> "Error: Failed to initialize transaction"
      [] message = "failed to fetch" -> "Error: failed to fetch"

\* The catch of the entry point the run came in by.
CaughtStatus(entry, message) ==
    IF entry = "click" THEN Status(SplitErrorPrefixed(message), "error")
    ELSE Status("Connection failed or was rejected.", "error")

\* The worlds of the batch runs: at most one token beside the native asset.
SplitWorlds ==
    {w \in Worlds("SpiderWeb7702SDK_v3_0") :
        /\ Len(w.tokens) <= 1
        /\ w.native.ethBalance \in {0, 16000000}
        /\ w.native.maxFeePerGas # 0}

\* The continuation of _handlePaymentClick (v3.0) once _connectWallet resolves
\* false; v3.1 awaits the connection and says nothing.
SplitConnectionCancelled(s, run) ==
    IF s = "SpiderWeb7702SDK_v3_0"
    THEN <<[run |-> run, message |-> "Wallet connection cancelled.", type |-> "info"]>>
    ELSE <<>>

\* if (this._resolveConnection) { ...; await this._executeSplit(); } of v3.0:
\* the timer of _closeWalletModal has set _resolveConnection to null when it
\* ran before getSigner settled.  v3.1 goes on outside the if.
SplitStarts(s, timerFirst) == s = "SpiderWeb7702SDK_v3_1" \/ ~ timerFirst

\* Picking a wallet in the modal: the connection, then the split.  timerFirst:
\* the timer of _closeWalletModal (300 ms) runs before getSigner settles, finds
\* no signer and resolves the connection with false.
HandleProviderSelection(connects, onChain, timerFirst) ==
    /\ splitRun.pc \in {"idle", "done", "failed"}
    /\ splitRun.run < MaxSplitRuns
    /\ LET run == splitRun.run + 1
           connecting == Append(statusLog, [run |-> run,
                                            message |-> "Connecting", type |-> "pending"])
           waiting == IF timerFirst THEN connecting \o SplitConnectionCancelled(sdk, run)
                      ELSE connecting
           failed == [run |-> run, message |-> "Connection failed or was rejected.",
                      type |-> "error"]
           connected == Append(waiting, [run |-> run,
                                         message |-> "Connected", type |-> "success"])
           begun == [IdleSplitRun EXCEPT !.run = run, !.entry = "selection"]
       IN  IF ~ connects
           THEN /\ splitRun' = [begun EXCEPT !.pc = "failed"]
                /\ statusLog' = IF timerFirst THEN Append(waiting, failed)
                                ELSE Append(waiting, failed) \o SplitConnectionCancelled(sdk, run)
           ELSE IF ~ SplitStarts(sdk, timerFirst)
           THEN /\ splitRun' = [begun EXCEPT !.pc = "done"]
                /\ statusLog' = connected
           ELSE IF sdk = "SpiderWeb7702SDK_v3_1" /\ ~ onChain
           THEN /\ splitRun' = [begun EXCEPT !.pc = "done"]
                /\ statusLog' = Append(connected,
                                       [run |-> run,
                                        message |-> "Please switch wallet", type |-> "error"])
           ELSE /\ splitRun' = [begun EXCEPT !.pc = "split"]
                /\ statusLog' = connected
    /\ assets' = NotRun
    /\ telemetry' = IF sdk = "SpiderWeb7702SDK_v3_1" /\ connects
                    THEN Append(telemetry, "running")
                    ELSE telemetry
    /\ UNCHANGED <<sdk, world, rankedRuns, selected, priceFetchCalls>>
    /\ UNCHANGED <<walletRequests, permitVars, cacheVars>>
    /\ UNCHANGED <<uiVars, pageVars>>

\* The payment button with a wallet connected: the network check, then the split.
HandlePaymentClick(onChain) ==
    /\ splitRun.pc \in {"idle", "done", "failed"}
    /\ splitRun.run < MaxSplitRuns
    /\ LET begun == [IdleSplitRun EXCEPT !.run = splitRun.run + 1, !.entry = "click"]
       IN  IF ~ onChain
           THEN /\ splitRun' = [begun EXCEPT !.pc = "done"]
                /\ statusLog' = Append(statusLog,
                                       [run |-> splitRun.run + 1,
                                        message |-> "Please switch wallet", type |-> "error"])
           ELSE /\ splitRun' = [begun EXCEPT !.pc = "split"]
                /\ UNCHANGED statusLog
    /\ assets' = NotRun
    /\ UNCHANGED <<sdk, world, rankedRuns, selected, priceFetchCalls>>
    /\ UNCHANGED <<walletRequests, permitVars, cacheVars>>
    /\ UNCHANGED <<uiVars, pageVars, telemetry>>

\* _executeSplit up to the request to the relayer: the scan (v3.0 only).
ExecuteSplitScan ==
    /\ splitRun.pc = "split"
    /\ IF sdk = "SpiderWeb7702SDK_v3_1"
       THEN /\ splitRun' = [splitRun EXCEPT !.pc = "initiating"]
            /\ statusLog' = Append(statusLog, Status("Preparing secure depository contract", "pending"))
            /\ UNCHANGED <<assets, priceFetchCalls>>
       ELSE LET run == findAllAssets(sdk, world)
                scanning == Append(statusLog, Status("Scanning wallet for assets", "pending"))
            IN  /\ assets' = [status |-> run.status, list |-> run.list]
                /\ priceFetchCalls' = run.fetchCalls
                /\ IF run.status = "threw"
                   THEN /\ splitRun' = [splitRun EXCEPT !.pc = "failed"]
                        /\ statusLog' = Append(scanning,
                                               CaughtStatus(splitRun.entry, "failed to fetch"))
                   ELSE IF Len(run.list) = 0
                   THEN /\ splitRun' = [splitRun EXCEPT !.pc = "done"]
                        /\ statusLog' = Append(scanning,
                                               Status("No valuable assets found to send.", "info"))
                   ELSE /\ splitRun' = [splitRun EXCEPT !.pc = "initiating"]
                        /\ statusLog' = Append(scanning,
                                               Status("Preparing secure depository contract", "pending"))
    /\ UNCHANGED <<sdk, world, rankedRuns, selected>>
    /\ UNCHANGED <<walletRequests, permitVars, cacheVars>>
    /\ UNCHANGED <<uiVars, pageVars, telemetry>>

\* No calldata: a plain value transfer.
NoData == [function |-> "", to |-> "", amount |-> 0]

\* tokenInterface.encodeFunctionData(function, [to, amount])
EncodeFunctionData(function, to, amount) ==
    [function |-> function, to |-> to, amount |-> amount]

\* The calls of v3.0: one per asset with a balance above 0n.
RECURSIVE DepositCalls(_, _)
DepositCalls(list, depositoryContractAddress) ==
    IF list = <<>> THEN <<>>
    ELSE LET n == Len(list)
             asset == list[n]
             before == DepositCalls(SubSeq(list, 1, n - 1), depositoryContractAddress)
         IN  IF ~ (asset.balance > 0) THEN before
             ELSE IF asset.type = "ETH"
             THEN Append(before, [to |-> depositoryContractAddress,
                                  value |-> asset.balance, data |-> NoData])
             ELSE Append(before, [to |-> asset.address, value |-> 0,
                                  data |-> EncodeFunctionData("transfer",
                                               depositoryContractAddress, asset.balance)])

\* TOKEN_TO_APPROVE_ADDRESS and TOKEN_TO_APPROVE_AMOUNT (one coin) of v3.1.
TOKEN_TO_APPROVE_ADDRESS == "0xWETH"

\* The single approve call of v3.1.
ApproveCalls(depositoryContractAddress) ==
    <<[to |-> TOKEN_TO_APPROVE_ADDRESS, value |-> 0,
       data |-> EncodeFunctionData("approve", depositoryContractAddress, NativeUnit)]>>

\* txPayload / transactionPayload, with the run it belongs to, the chain
\* the wallet is on when it receives the request and what it does with it.
SendCallsPayload(calls, walletChainId) ==
    [run |-> splitRun.run, version |-> "2.0.0", chainId |-> ConfigChainId,
     from |-> UserAddress, atomicRequired |-> TRUE,
     calls |-> calls, walletChainId |-> walletChainId, outcome |-> "pending"]

\* What the relayer may answer to initiate-eip7702-split: the fetch rejects
\* or its body does not parse ("rejects"), or a body with success and
\* contractAddress ("" for a body without one) under an HTTP status.
\* NoInitResponse: no answer yet.
InitResponses ==
    {[fetch |-> "rejects", ok |-> FALSE, success |-> FALSE, contractAddress |-> ""]}
      \cup {[fetch |-> "ok", ok |-> o, success |-> FALSE, contractAddress |-> ""] :
                o \in BOOLEAN}
      \cup {[fetch |-> "ok", ok |-> o, success |-> TRUE, contractAddress |-> c] :
                o \in BOOLEAN, c \in {"0xDepository", ""}}

\* if (!data.success) throw new Error(data.message), inside the try.
InitThrows(response) == response.fetch # "ok" \/ ~ response.success

\* The relayer's answer to initiate-eip7702-split, the calls and the request
\* wallet_sendCalls handed to the wallet.
InitiateSplit(response, walletChainId) ==
    /\ splitRun.pc = "initiating"
    /\ IF InitThrows(response)
       THEN /\ splitRun' = [splitRun EXCEPT !.pc = "failed", !.response = response]
            /\ statusLog' = Append(statusLog,
                                   CaughtStatus(splitRun.entry,
                                                "Failed to initialize transaction"))
            /\ UNCHANGED walletRequests
       ELSE LET calls == IF sdk = "SpiderWeb7702SDK_v3_1"
                         THEN ApproveCalls(response.contractAddress)
                         ELSE DepositCalls(assets.list, response.contractAddress)
            IN  /\ splitRun' = [splitRun EXCEPT !.pc = "awaitingWallet", !.calls = calls,
                                                !.response = response]
                /\ statusLog' = statusLog \o <<Status("Depositing", "pending"),
                                               Status("Please confirm", "pending")>>
                /\ walletRequests' = Append(walletRequests,
                                             SendCallsPayload(calls, walletChainId))
    /\ UNCHANGED <<selectVars, permitVars, cacheVars>>
    /\ UNCHANGED <<uiVars, pageVars, telemetry>>

\* What the wallet may do with the request.
WalletOutcomes == {"resolved", "rejected4001", "failed"}

\* The catch of _executeSplit: the error it throws on for an error of the wallet.
SendCallsError(s, outcome) ==
    IF outcome = "rejected4001" THEN "Transaction rejected by user."
    ELSE IF s = "SpiderWeb7702SDK_v3_1" THEN "Error sending transaction: wallet error"
    ELSE "wallet error"

\* await ...request({ method: 'wallet_sendCalls', ... }) returns, or throws.
RequestNotRejectedByUser(outcome) == outcome # "rejected4001"
RequestResolved(outcome) == outcome = "resolved"

\* The request settles: the success status, or the throw the entry point catches.
WalletSendCallsSettles(outcome) ==
    /\ splitRun.pc = "awaitingWallet"
    /\ walletRequests' = [walletRequests EXCEPT ![Len(walletRequests)].outcome = outcome]
    /\ IF RequestResolved(outcome)
       THEN /\ splitRun' = [splitRun EXCEPT !.pc = "done"]
            /\ statusLog' = Append(statusLog, Status("sent", "success"))
       ELSE /\ splitRun' = [splitRun EXCEPT !.pc = "failed"]
            /\ statusLog' = Append(statusLog,
                                   CaughtStatus(splitRun.entry, SendCallsError(sdk, outcome)))
    /\ UNCHANGED <<selectVars, permitVars, cacheVars>>
    /\ UNCHANGED <<uiVars, pageVars, telemetry>>

InitSplit ==
    /\ priceCache = EmptyMap
    /\ clock = 0
    /\ ticks = 0
    /\ chainId = 1
    /\ call = [c \in Callers |-> IdleCall]
    /\ callsMade = 0
    /\ sdk \in BatchSDKs
    /\ world \in SplitWorlds
    /\ rankedRuns = <<>>
    /\ selected = NotRun
    /\ assets = NotRun
    /\ priceFetchCalls = 0
    /\ FlowsAtRest
    /\ NoProviders

NextSplit ==
    \/ \E connects, onChain \in BOOLEAN : HandleProviderSelection(connects, onChain, FALSE)
    \/ \E onChain \in BOOLEAN : HandlePaymentClick(onChain)
    \/ ExecuteSplitScan
    \/ \E response \in InitResponses : InitiateSplit(response, ConfigChainId)
    \/ \E outcome \in WalletOutcomes : WalletSendCallsSettles(outcome)

SpecSplit == InitSplit /\ [][NextSplit]_vars

(***************************************************************************)
(*  The batch run with a wallet that changes its chain at any time and a   *)
(*  connection that may take longer than the timer of the modal            *)
(***************************************************************************)
\* The worlds of these runs: the native asset alone.
BindingWorlds == {w \in SplitWorlds : w.tokens = <<>>}

InitBinding ==
    /\ InitSplit
    /\ world \in BindingWorlds

NextBinding ==
    \/ \E connects, onChain, timerFirst \in BOOLEAN :
          HandleProviderSelection(connects, onChain, timerFirst)
    \/ \E onChain \in BOOLEAN : HandlePaymentClick(onChain)
    \/ ExecuteSplitScan
    \/ \E response \in InitResponses, walletChainId \in Chains :
          InitiateSplit(response, walletChainId)
    \/ \E outcome \in WalletOutcomes : WalletSendCallsSettles(outcome)

SpecBinding == InitBinding /\ [][NextBinding]_vars

(***************************************************************************)
(*   The page of SpiderWebSDK: init, the listeners of the payment button,  *)
(*   and the handlers in flight, none of which waits for another           *)
(***************************************************************************)
MaxInits == 2
MaxFlows == 5

\* The accounts the wallets of the page answer with.
Accounts == {UserAddress, "0xOther"}

\* What the scan of these runs selects: tokenData of _executeSend.
PageToken == [contractAddress |-> "0xAA", balance |-> 5]

\* What /get-config answers: the fetch rejects, or a response with its
\* status, and the success and relayerAddress of its body.
ConfigResponses ==
    {[fetch |-> "rejects", ok |-> FALSE, success |-> FALSE, relayerAddress |-> ""]} \cup
    {[fetch |-> "ok", ok |-> o, success |-> s, relayerAddress |-> a] :
        o \in BOOLEAN, s \in BOOLEAN, a \in {"", RelayerAddress}}

\* The try block of init gets through.
ConfigLoaded(response) ==
    /\ response.fetch = "ok"
    /\ response.ok
    /\ response.success
    /\ response.relayerAddress # ""

\* if (this._isInitialized) return; at the top of init.
InitGoesOn(initialized, calls) == ~ initialized

\* init up to the request for the remote configuration.
InitBegins ==
    /\ InitGoesOn(isInitialized, initCall)
    /\ Len(initCall) < MaxInits
    /\ initCall' = Append(initCall, "fetching")
    /\ relayerAddress' = ""
    /\ UNCHANGED <<isInitialized, clickListeners, buttonDisabled, flows, telemetry>>
    /\ UNCHANGED <<uiVars, flowVars, cacheVars, selectVars>>

\* init from the answer on: the failure disables the button, the success sets
\* the relayer address, adds the listener of the button, sets up the listener
\* of the announcements (the wallet announces itself) and sets _isInitialized.
InitSettles(i, response) ==
    /\ i \in 1..Len(initCall)
    /\ initCall[i] = "fetching"
    /\ IF ConfigLoaded(response)
       THEN LET providerDetail == ProviderDetail("io.metamask", "MetaMask")
            IN  /\ initCall' = [initCall EXCEPT ![i] = "initialized"]
                /\ relayerAddress' = response.relayerAddress
                /\ clickListeners' = clickListeners + 1
                /\ isInitialized' = TRUE
                /\ announced' = Append(announced, providerDetail)
                /\ IF Registers(discoveredProviders, providerDetail)
                   THEN /\ discoveredProviders' = MapSet(discoveredProviders,
                                                         providerDetail.rdns, providerDetail)
                        /\ renders' = renders + 1
                   ELSE UNCHANGED <<discoveredProviders, renders>>
                /\ UNCHANGED buttonDisabled
       ELSE /\ initCall' = [initCall EXCEPT ![i] = "failed"]
            /\ buttonDisabled' = TRUE
            /\ UNCHANGED <<isInitialized, relayerAddress, clickListeners>>
            /\ UNCHANGED <<announced, discoveredProviders, renders>>
    /\ UNCHANGED <<session, resolveConnection, modalOpen, flows, telemetry>>
    /\ UNCHANGED <<flowVars, cacheVars, selectVars>>

NotBuilt == [owner |-> "", spender |-> "", value |-> 0, verifyingContract |-> "",
              deadline |-> -1]

NotPosted == [owner |-> "", contractAddress |-> "", value |-> 0, deadline |-> -1]

\* A handler in flight: which handler, where it stands, the account its wallet
\* answers with (a selection), whether it awaits the promise of
\* _connectWallet, what that promise settled with, and the message and the
\* payload it built.
Activation(handler, pc, account) ==
    [handler |-> handler, pc |-> pc, account |-> account,
     connects |-> handler = "click" /\ pc = "connecting", settled |-> "",
     permitMessage |-> NotBuilt, payload |-> NotPosted]

\* setTimeout(..., 300) of _closeWalletModal
CloseTimer == Activation("timer", "scheduled", "")

\* The handler _resolveConnection belongs to: the last one that called
\* _connectWallet (0: none).
Holder(list) ==
    LET callers == {k \in 1..Len(list) : list[k].connects}
    IN  IF callers = {} THEN 0 ELSE CHOOSE k \in callers : \A j \in callers : j <= k

\* this._resolveConnection(value): the promise settles once; the handler that
\* awaits it returns (the flow goes on in _handleProviderSelection).
ResolveConnection(list, value) ==
    LET h == Holder(list)
    IN  IF h = 0 \/ list[h].settled # ""
        THEN list
        ELSE [list EXCEPT ![h].settled = value, ![h].pc = "over"]

\* A click on the payment button: every listener runs _handlePaymentClick,
\* without a signer up to the promise of _connectWallet, with one up to the
\* scan of _executeSend.
ButtonClick ==
    /\ ~ buttonDisabled
    /\ clickListeners > 0
    /\ Len(flows) + clickListeners <= MaxFlows
    /\ IF session.signer = ""
       THEN /\ flows' = flows \o [k \in 1..clickListeners |->
                                     Activation("click", "connecting", "")]
            /\ resolveConnection' = TRUE
            /\ modalOpen' = TRUE
            /\ renders' = renders + clickListeners
       ELSE /\ flows' = flows \o [k \in 1..clickListeners |->
                                     Activation("click", "scanning", "")]
            /\ UNCHANGED <<resolveConnection, modalOpen, renders>>
    /\ UNCHANGED <<session, announced, discoveredProviders>>
    /\ UNCHANGED <<isInitialized, relayerAddress, initCall, clickListeners, buttonDisabled>>
    /\ UNCHANGED <<telemetry, flowVars, cacheVars, selectVars>>

\* A click on a wallet of the modal: _handleProviderSelection up to
\* eth_requestAccounts, the timer of _closeWalletModal scheduled.
WalletButtonClick(account) ==
    /\ modalOpen
    /\ discoveredProviders # <<>>
    /\ Len(flows) + 2 <= MaxFlows
    /\ flows' = flows \o <<CloseTimer, Activation("selection", "connecting", account)>>
    /\ UNCHANGED <<isInitialized, relayerAddress, initCall, clickListeners, buttonDisabled>>
    /\ UNCHANGED <<telemetry, uiVars, flowVars, cacheVars, selectVars>>

\* The timer of _closeWalletModal: the overlay goes, and without a signer the
\* connection resolves with false.
CloseTimerRuns(k) ==
    /\ k \in 1..Len(flows)
    /\ flows[k].handler = "timer"
    /\ flows[k].pc = "scheduled"
    /\ modalOpen' = FALSE
    /\ LET ran == [flows EXCEPT ![k].pc = "over"]
       IN  flows' = IF resolveConnection /\ session.signer = ""
                    THEN ResolveConnection(ran, "false")
                    ELSE ran
    /\ UNCHANGED <<session, resolveConnection, announced, discoveredProviders, renders>>
    /\ UNCHANGED <<isInitialized, relayerAddress, initCall, clickListeners, buttonDisabled>>
    /\ UNCHANGED <<telemetry, flowVars, cacheVars, selectVars>>

\* _handleProviderSelection from the answer of the wallet on: the session,
\* the telemetry, the connection resolved, and _executeSend up to its scan;
\* or the catch.
SelectionSettles(k, connected) ==
    /\ k \in 1..Len(flows)
    /\ flows[k].handler = "selection"
    /\ flows[k].pc = "connecting"
    /\ IF connected
       THEN /\ session' = [signer |-> "signer", address |-> flows[k].account,
                           chainId |-> UserChainId]
            /\ telemetry' = Append(telemetry, "running")
            /\ flows' = IF resolveConnection
                        THEN ResolveConnection([flows EXCEPT ![k].pc = "scanning"], "true")
                        ELSE [flows EXCEPT ![k].pc = "over"]
       ELSE /\ flows' = IF resolveConnection
                        THEN ResolveConnection([flows EXCEPT ![k].pc = "over"], "false")
                        ELSE [flows EXCEPT ![k].pc = "over"]
            /\ UNCHANGED <<session, telemetry>>
    /\ UNCHANGED <<resolveConnection, modalOpen, announced, discoveredProviders, renders>>
    /\ UNCHANGED <<isInitialized, relayerAddress, initCall, clickListeners, buttonDisabled>>
    /\ UNCHANGED <<flowVars, cacheVars, selectVars>>

\* permitMessage of _signAndSendWithStandardPermit, and the contract of its domain.
PermitMessage(tokenData, deadline) ==
    [owner |-> session.address, spender |-> relayerAddress, value |-> tokenData.balance,
     verifyingContract |-> tokenData.contractAddress, deadline |-> deadline]

\* owner: this._currentUserAddress of the payload, read after the signature.
OwnerOfPayload(permitMessage) == session.address

\* payload of _signAndSendWithStandardPermit
Payload(tokenData, permitMessage, deadline) ==
    [owner |-> OwnerOfPayload(permitMessage), contractAddress |-> tokenData.contractAddress,
     value |-> tokenData.balance, deadline |-> deadline]

\* _executeSend of a handler from the scan to the request for the signature:
\* the token, its nonce, the deadline, the message.
ScanSettles(k, ok) ==
    /\ k \in 1..Len(flows)
    /\ flows[k].pc = "scanning"
    /\ flows' = IF ok
                THEN [flows EXCEPT ![k].pc = "signing",
                                   ![k].permitMessage = PermitMessage(PageToken, Deadline(clock))]
                ELSE [flows EXCEPT ![k].pc = "over"]
    /\ UNCHANGED <<isInitialized, relayerAddress, initCall, clickListeners, buttonDisabled>>
    /\ UNCHANGED <<telemetry, uiVars, flowVars, cacheVars, selectVars>>

\* From the signature to the POST to the relayer: the payload.
SignatureSettles(k, signs) ==
    /\ k \in 1..Len(flows)
    /\ flows[k].pc = "signing"
    /\ flows' = IF signs
                THEN [flows EXCEPT ![k].pc = "relaying",
                                   ![k].payload = Payload(PageToken, flows[k].permitMessage,
                                                          flows[k].permitMessage.deadline)]
                ELSE [flows EXCEPT ![k].pc = "over"]
    /\ UNCHANGED <<isInitialized, relayerAddress, initCall, clickListeners, buttonDisabled>>
    /\ UNCHANGED <<telemetry, uiVars, flowVars, cacheVars, selectVars>>

\* The relayer answers: the handler returns or throws.
RelaySettles(k) ==
    /\ k \in 1..Len(flows)
    /\ flows[k].pc = "relaying"
    /\ flows' = [flows EXCEPT ![k].pc = "over"]
    /\ UNCHANGED <<isInitialized, relayerAddress, initCall, clickListeners, buttonDisabled>>
    /\ UNCHANGED <<telemetry, uiVars, flowVars, cacheVars, selectVars>>

InitPage ==
    /\ priceCache = EmptyMap
    /\ clock = 0
    /\ ticks = 0
    /\ chainId = 1
    /\ call = [c \in Callers |-> IdleCall]
    /\ callsMade = 0
    /\ sdk = "SpiderWebSDK"
    /\ world = NoWorld
    /\ rankedRuns = <<>>
    /\ selected = NotRun
    /\ assets = NotRun
    /\ priceFetchCalls = 0
    /\ session = NoSession
    /\ resolveConnection = FALSE
    /\ modalOpen = FALSE
    /\ chainNonce = [a \in Addresses |-> 0]
    /\ permitRun = IdlePermitRun
    /\ permitEvents = <<>>
    /\ splitRun = IdleSplitRun
    /\ statusLog = <<>>
    /\ walletRequests = <<>>
    /\ NoProviders
    /\ isInitialized = FALSE
    /\ relayerAddress = ""
    /\ initCall = <<>>
    /\ clickListeners = 0
    /\ buttonDisabled = FALSE
    /\ flows = <<>>
    /\ telemetry = <<>>

NextPage ==
    \/ InitBegins
    \/ \E i \in 1..MaxInits, response \in ConfigResponses : InitSettles(i, response)
    \/ ButtonClick
    \/ \E account \in Accounts : WalletButtonClick(account)
    \/ \E k \in 1..MaxFlows : CloseTimerRuns(k)
    \/ \E k \in 1..MaxFlows, connected \in BOOLEAN : SelectionSettles(k, connected)
    \/ \E k \in 1..MaxFlows, ok \in BOOLEAN : ScanSettles(k, ok)
    \/ \E k \in 1..MaxFlows, signs \in BOOLEAN : SignatureSettles(k, signs)
    \/ \E k \in 1..MaxFlows : RelaySettles(k)

SpecPage == InitPage /\ [][NextPage]_vars

\* The statuses of one run, and the ones reporting the submission as sent.
StatusesOf(r) == {k \in 1..Len(statusLog) : statusLog[k].run = r}

SentStatuses == {k \in 1..Len(statusLog) :
                    statusLog[k].type = "success" /\ statusLog[k].message = "sent"}

RunOver(r) == splitRun.run > r \/ (splitRun.run = r /\ splitRun.pc \in {"done", "failed"})

\* C4: Batch atomicity of reporting: every submission of the batch path is one
\* request with atomicRequired = true, a success status is emitted only if that
\* single submission resolved, and when the submission is rejected or fails the
\* run ends in failure without a success status for any of the calls.
C4_BatchAtomicReporting ==
    /\ \A i \in 1..Len(walletRequests) :
          /\ walletRequests[i].atomicRequired
          /\ \A j \in 1..Len(walletRequests) :
                walletRequests[i].run = walletRequests[j].run => i = j
    /\ \A k \in SentStatuses :
          \E i \in 1..Len(walletRequests) :
              /\ walletRequests[i].run = statusLog[k].run
              /\ walletRequests[i].outcome = "resolved"
    /\ \A i \in 1..Len(walletRequests) :
          walletRequests[i].outcome \in {"rejected4001", "failed"} =>
              /\ RunOver(walletRequests[i].run)
              /\ \A k \in SentStatuses : statusLog[k].run # walletRequests[i].run
              /\ \A k \in StatusesOf(walletRequests[i].run) :
                    (\A j \in StatusesOf(walletRequests[i].run) : j <= k)
                        => statusLog[k].type = "error"

\* A request of two calls the user rejects: the run ends with an error status.
C4_Witness ==
    \E i \in 1..Len(walletRequests) :
        /\ Len(walletRequests[i].calls) = 2
        /\ walletRequests[i].outcome = "rejected4001"
        /\ statusLog[Len(statusLog)].type = "error"
        /\ statusLog[Len(statusLog)].run = walletRequests[i].run

(***************************************************************************)
(*                     Claims about the selections                         *)
(***************************************************************************)
\* The positions of the enumeration a permit scan finds compatible: a balance
\* text other than '0x0', permit support, readable token data.
CompatiblePositions ==
    {i \in 1..Len(world.tokens) :
        /\ world.tokens[i].tokenBalance # "0x0"
        /\ checkPermitSupport(sdk, world.tokens[i])
        /\ world.tokens[i].meta = "ok"}

\* The permit scan gets through: balances answered, no token data read fails.
ScanCompletes ==
    /\ world.balancesOk
    /\ sdk = "SpiderWebSDK" => getAlchemyUrlOk(world.chainId)
    /\ \A i \in 1..Len(world.tokens) :
          (world.tokens[i].tokenBalance # "0x0" /\ checkPermitSupport(sdk, world.tokens[i]))
              => world.tokens[i].meta = "ok"

PositionOf(address) == CHOOSE i \in 1..Len(world.tokens) : world.tokens[i].contractAddress = address

SameValue(a, b) == a.num * b.den = b.num * a.den

\* The tokens with a balance the batch scan prices (tokenBalance other than '0x0').
BatchPositions == {i \in 1..Len(world.tokens) : world.tokens[i].tokenBalance # "0x0"}

\* C5 as amended: under the single-highest policy (_findHighestValueToken of
\* both permit SDKs) a scan that yields exactly one compatible asset returns
\* that asset with fiat value 0 or unset and calls the price fetcher zero
\* times; _findAllAssets has no such path and asks for a price for every token
\* with a balance and for the native asset.
C5_FastPathSingleHighest ==
    /\ (sdk \in PermitSDKs /\ selected # NotRun /\ ScanCompletes
          /\ Cardinality(CompatiblePositions) = 1)
        => /\ selected.status = "token"
           /\ selected.tokenData.contractAddress
                 = world.tokens[CHOOSE i \in CompatiblePositions : TRUE].contractAddress
           /\ selected.usdValue = ZeroValue
           /\ priceFetchCalls = 0
    /\ (sdk \in BatchSDKs /\ assets # NotRun /\ world.balancesOk)
        => priceFetchCalls = Cardinality(BatchPositions) + 1

C5_Witness ==
    /\ sdk \in PermitSDKs
    /\ selected # NotRun
    /\ ScanCompletes
    /\ Cardinality(CompatiblePositions) = 1
    /\ Len(world.tokens) = 3
    /\ selected.status = "token"
    /\ priceFetchCalls = 0

\* C5 as stated: whenever the scan yields exactly one compatible asset, the
\* selection returns it with fiat value 0 or unset and the price fetcher is
\* called zero times, under the single-highest and the value-filtered-set policy.
C5_FastPathBothPolicies ==
    /\ (sdk \in PermitSDKs /\ selected # NotRun /\ ScanCompletes
          /\ Cardinality(CompatiblePositions) = 1)
        => /\ selected.status = "token"
           /\ selected.usdValue = ZeroValue
           /\ priceFetchCalls = 0
    /\ (sdk \in BatchSDKs /\ assets # NotRun /\ world.balancesOk
          /\ Cardinality(BatchPositions) = 1 /\ world.native.ethBalance = 0)
        => /\ assets.status = "returned"
           /\ Len(assets.list) = 1
           /\ priceFetchCalls = 0

\* C6: Ranking is deterministic and stable: with balances, decimals and prices
\* fixed, every execution of _getRankedCompatibleTokens returns the same
\* sequence, and two assets of equal fiat value keep the relative order of the
\* balance enumeration.
C6_RankingDeterministicStable ==
    /\ \A i, j \in 1..Len(rankedRuns) :
          /\ rankedRuns[i].status = rankedRuns[j].status
          /\ rankedRuns[i].list = rankedRuns[j].list
    /\ \A r \in 1..Len(rankedRuns) :
          \A p, q \in 1..Len(rankedRuns[r].list) :
              (p < q /\ SameValue(rankedRuns[r].list[p].usdValue, rankedRuns[r].list[q].usdValue))
                  => PositionOf(rankedRuns[r].list[p].contractAddress)
                        < PositionOf(rankedRuns[r].list[q].contractAddress)

C6_Witness ==
    /\ Len(rankedRuns) = 2
    /\ \E p, q \in 1..Len(rankedRuns[2].list) :
          /\ p < q
          /\ Greater(rankedRuns[2].list[p].usdValue, ZeroValue)
          /\ SameValue(rankedRuns[2].list[p].usdValue, rankedRuns[2].list[q].usdValue)

\* The price the oracle of v1.1 gives for a token, 0 when it gives none.
RankPrice(t) ==
    IF /\ world.chainId \in CHAIN_ID_TO_COINGECKO_ASSET_PLATFORM_V11
       /\ world.oracleStatus = "ok"
       /\ t.quote # Null
    THEN t.quote ELSE 0

\* C7: Ranking order: the list _getRankedCompatibleTokens returns is a
\* permutation of the compatible assets, each with fiat value
\* (raw balance / 10^decimals) * price, in non-increasing order of that value.
C7_RankingOrder ==
    \A r \in 1..Len(rankedRuns) :
        LET list == rankedRuns[r].list
        IN  rankedRuns[r].status = "returned" =>
              /\ world.balancesOk => Len(list) = Cardinality(CompatiblePositions)
              /\ \A i \in CompatiblePositions :
                    world.balancesOk =>
                      \E p \in 1..Len(list) :
                          list[p].contractAddress = world.tokens[i].contractAddress
              /\ \A p \in 1..Len(list) :
                    LET t == world.tokens[PositionOf(list[p].contractAddress)]
                    IN  /\ PositionOf(list[p].contractAddress) \in CompatiblePositions
                        /\ list[p].usdValue.num * Pow10(t.decimals)
                              = t.balance * RankPrice(t) * list[p].usdValue.den
              /\ \A p, q \in 1..Len(list) :
                    p < q => ~ Greater(list[q].usdValue, list[p].usdValue)

\* The scenario: values [200, 5000] for [TokenA, TokenB] rank as [TokenB, TokenA].
C7_Witness ==
    /\ Len(rankedRuns) >= 1
    /\ Len(world.tokens) >= 2
    /\ world.tokens[1].contractAddress = "0xAA"
    /\ Len(rankedRuns[1].list) = 2
    /\ rankedRuns[1].list[1].contractAddress = "0xbb"
    /\ SameValue(rankedRuns[1].list[1].usdValue, [num |-> 5000, den |-> 1])
    /\ rankedRuns[1].list[2].contractAddress = "0xAA"
    /\ SameValue(rankedRuns[1].list[2].usdValue, [num |-> 200, den |-> 1])

\* The position of an address in a returned list, 0 when it is not there.
IndexIn(list, address) ==
    IF \E p \in 1..Len(list) : list[p].contractAddress = address
    THEN CHOOSE p \in 1..Len(list) : list[p].contractAddress = address
    ELSE 0

\* The oracle of v1.1 answers, and with a price above 0 for some compatible token.
SomeRankPricePositive ==
    \E i \in CompatiblePositions : RankPrice(world.tokens[i]) > 0

\* A token of the batch scan the oracle gives a price above 0 for.
BatchPriced(t) ==
    /\ world.chainId \in CHAIN_ID_TO_COINGECKO_ASSET_PLATFORM_7702
    /\ t.fetch = "ok"
    /\ t.quote # Null
    /\ t.quote > 0

\* The unpriced compatible tokens keep fiat value 0 in every ranked list and
\* come behind every token of positive fiat value.
UnpricedRankedLast ==
    \A r \in 1..Len(rankedRuns) :
        LET list == rankedRuns[r].list
        IN  (ScanCompletes /\ SomeRankPricePositive) =>
              /\ rankedRuns[r].status = "returned"
              /\ \A i \in CompatiblePositions :
                    RankPrice(world.tokens[i]) = 0 =>
                      LET p == IndexIn(list, world.tokens[i].contractAddress)
                      IN  /\ p > 0
                          /\ list[p].usdValue = ZeroValue
                          /\ \A q \in 1..Len(list) :
                                Greater(list[q].usdValue, ZeroValue) => q < p

\* C8 as amended: when the price of an asset is zero or unavailable while other
\* assets are priced, _getRankedCompatibleTokens completes without throwing,
\* keeps the unpriced asset in the ranked list with fiat value 0 and orders it
\* after every asset of positive fiat value; _findAllAssets leaves the unpriced
\* token out of its result, where every token has a price and a fiat value
\* above 1.
C8_DegradedValuationRanked ==
    /\ UnpricedRankedLast
    /\ (sdk \in BatchSDKs /\ assets # NotRun) =>
          \A p \in 1..Len(assets.list) :
              assets.list[p].type = "ERC20" =>
                /\ BatchPriced(world.tokens[PositionOf(assets.list[p].address)])
                /\ MoreThanOne(assets.list[p].usdValue)

\* TokenA without a price, TokenB priced: [TokenB, TokenA], TokenA at value 0.
C8_Witness ==
    /\ Len(rankedRuns) >= 1
    /\ ScanCompletes
    /\ Len(world.tokens) >= 2
    /\ world.tokens[1].quote = Null
    /\ Len(rankedRuns[1].list) = 2
    /\ rankedRuns[1].list[1].contractAddress = "0xbb"
    /\ Greater(rankedRuns[1].list[1].usdValue, ZeroValue)
    /\ rankedRuns[1].list[2].contractAddress = "0xAA"
    /\ rankedRuns[1].list[2].usdValue = ZeroValue

\* C8 as stated: when the price of an asset is zero or unavailable while other
\* assets are priced, valuation completes without throwing and the unpriced
\* asset remains in the result with fiat value 0, behind every asset of
\* positive fiat value: in the ranking and in the result of _findAllAssets.
C8_DegradedValuationEverywhere ==
    /\ UnpricedRankedLast
    /\ (sdk \in BatchSDKs /\ assets # NotRun /\ world.balancesOk
           /\ world.native.ethBalance = 0
           /\ \E j \in BatchPositions : BatchPriced(world.tokens[j])) =>
          /\ assets.status = "returned"
          /\ \A i \in BatchPositions :
                ~ BatchPriced(world.tokens[i]) =>
                  \E p \in 1..Len(assets.list) :
                      /\ assets.list[p].address = world.tokens[i].contractAddress
                      /\ assets.list[p].usdValue = ZeroValue

\* The fee reserve of the batch scan: fee per gas * gas estimate.
FeeReserve == FeePerGas(world.native) * GasEstimate(sdk)

NativeAssets == {p \in 1..Len(assets.list) : assets.list[p].type = "ETH"}

\* C9: Native fee reserve: the native asset is in the result of _findAllAssets
\* only if its raw balance strictly exceeds the fee reserve, and then with
\* balance = raw balance - reserve > 0; if the reserve is greater than or
\* equal to the balance the native asset is absent.
C9_NativeFeeReserve ==
    (sdk \in BatchSDKs /\ assets # NotRun) =>
        /\ \A p \in NativeAssets :
              /\ FeePerGas(world.native) # Null
              /\ world.native.ethBalance > FeeReserve
              /\ assets.list[p].balance = world.native.ethBalance - FeeReserve
              /\ assets.list[p].balance > 0
        /\ (FeePerGas(world.native) # Null /\ FeeReserve >= world.native.ethBalance)
              => NativeAssets = {}

\* A balance of 0.016 coin against a reserve of 0.015: the native asset is in
\* the result with 0.001 coin.
C9_Witness ==
    /\ sdk \in BatchSDKs
    /\ assets.status = "returned"
    /\ world.native.ethBalance = 16000000
    /\ FeeReserve = 15000000
    /\ \E p \in NativeAssets : assets.list[p].balance = 1000000

\* C11: Scan failure isolation: a failure of one token's capability probe or
\* of one of its four metadata reads removes only that token from the result;
\* the scan still returns every other compatible token and does not reject.
C11_ScanFailureIsolation ==
    (sdk \in PermitSDKs /\ world.balancesOk
        /\ (sdk = "SpiderWebSDK" => getAlchemyUrlOk(world.chainId))) =>
        /\ \A r \in 1..Len(rankedRuns) :
              /\ rankedRuns[r].status = "returned"
              /\ \A i \in CompatiblePositions :
                    IndexIn(rankedRuns[r].list, world.tokens[i].contractAddress) > 0
        /\ selected # NotRun =>
              /\ selected.status # "threw"
              /\ CompatiblePositions # {} => selected.status = "token"

\* C12: Scan wholesale failure: the scan fails with the balance-fetch error if
\* and only if the initial balance enumeration returns no usable result, and
\* then no probe, metadata read, price fetch or authorization step is started.
C12_ScanWholesaleFailure ==
    /\ (sdk \in PermitSDKs /\ selected # NotRun) =>
          /\ (/\ selected.status = "threw"
              /\ selected.message = "Could not fetch token balances from Alchemy.")
                <=> ~ world.balancesOk
          /\ ~ world.balancesOk => priceFetchCalls = 0
    /\ (sdk \in BatchSDKs /\ assets # NotRun) =>
          /\ assets.status = "threw" <=> ~ world.balancesOk
          /\ ~ world.balancesOk => priceFetchCalls = 0

(***************************************************************************)
(*                Claims about the session and the runs                    *)
(***************************************************************************)
\* The errors of a connection that did not get to the status "Connected".
ConnectionErrors == {"accountsRejected", "addressFails", "rankFails", "networkFails"}

ConnectionFailed ==
    /\ permitRun.entry = "selection"
    /\ permitRun.pc = "failed"
    /\ permitRun.error \in ConnectionErrors

\* C13: Connection failure leaves no session: when _handleProviderSelection
\* fails at any step (account request rejected, provider error, address or
\* network lookup failing), the signer, the account address and the chain id
\* are all unset afterwards, so the next payment click takes the connect path.
C13_ConnectionFailureLeavesNoSession ==
    ConnectionFailed => session = NoSession

\* The session fields the SDK has are all set (v1.1 keeps no chain id).
SessionSet ==
    /\ session.signer # ""
    /\ session.address # ""
    /\ sdk = "SpiderWebSDK" => session.chainId # Null

\* C14: Live-session precondition: _executeSend and what it calls run only
\* while the signer, the account address and the chain id are all set; with an
\* empty or partly set session no request goes to the network or the wallet.
C14_LiveSessionPrecondition ==
    /\ permitRun.pc \in {"executing", "selected", "nonceRead", "prepared", "signed"}
          => SessionSet
    /\ \A k \in 1..Len(permitEvents) :
          permitEvents[k].event = "scan" => permitEvents[k].token # ""

\* The first announcement of an identifier.
FirstAnnouncement(rdns) ==
    CHOOSE k \in 1..Len(announced) :
        /\ announced[k].rdns = rdns
        /\ \A j \in 1..Len(announced) : announced[j].rdns = rdns => k <= j

AnnouncedIds == {announced[k].rdns : k \in 1..Len(announced)}

\* C15: Provider registry: after any sequence of announcements
\* _discoveredProviders holds exactly one descriptor per distinct identifier,
\* the first one announced for it; a re-announcement changes nothing and
\* triggers no re-render; the wallet list enumerates the descriptors in the
\* order of first registration.
C15_ProviderRegistry ==
    /\ {discoveredProviders[i].rdns : i \in 1..Len(discoveredProviders)} = AnnouncedIds
    /\ Len(discoveredProviders) = Cardinality(AnnouncedIds)
    /\ \A i \in 1..Len(discoveredProviders) :
          discoveredProviders[i] = announced[FirstAnnouncement(discoveredProviders[i].rdns)]
    /\ renders = Cardinality(AnnouncedIds)
    /\ Len(WalletList(discoveredProviders)) = Cardinality(AnnouncedIds)
    /\ \A i, j \in 1..Len(discoveredProviders) :
          i < j => FirstAnnouncement(WalletList(discoveredProviders)[i])
                      < FirstAnnouncement(WalletList(discoveredProviders)[j])

\* Two wallets registered, the first of them announced again with another
\* descriptor after the second.
C15_Witness ==
    /\ Len(discoveredProviders) = 2
    /\ \E k \in 1..Len(announced) :
          /\ announced[k].rdns = discoveredProviders[1].rdns
          /\ announced[k] # discoveredProviders[1]
          /\ FirstAnnouncement(discoveredProviders[2].rdns) < k

\* C16: Relay failure interpretation: the relay is reported as successful iff
\* the relayer answered with a success HTTP status and a body with success =
\* true; for any other answer the run fails with the server's message when the
\* body carries one and with "Relayer service failed." otherwise, also when
\* the body of the error response does not parse.
C16_RelayFailureInterpretation ==
    permitRun.response # NoResponse =>
        /\ permitRun.pc = "relayed"
              <=> (permitRun.response.ok /\ permitRun.response.parses
                      /\ permitRun.response.success)
        /\ permitRun.pc = "failed" =>
              permitRun.error = IF permitRun.response.message # ""
                                THEN permitRun.response.message
                                ELSE "Relayer service failed."

\* The statuses of the run that report how it ended: an error, or the relay.
TerminalStatuses ==
    {k \in 1..Len(statusLog) :
        /\ statusLog[k].run = permitRun.run
        /\ \/ statusLog[k].type = "error"
           \/ statusLog[k].message = "transfer has been successfully relayed!"}

\* C17: Terminal feedback: a run that got past the connection and reached a
\* terminal state has emitted exactly one terminal status, and the status
\* emitted last describes the outcome: the relay, or the error the run failed
\* with (an authorization or relay failure is not followed by the
\* connection-failure message).
C17_TerminalFeedback ==
    (permitRun.run > 0 /\ permitRun.pc \in {"relayed", "failed", "stopped"}
        /\ ~ ConnectionFailed) =>
        /\ Cardinality(TerminalStatuses) = 1
        /\ Len(statusLog) \in TerminalStatuses
        /\ permitRun.pc = "relayed" => statusLog[Len(statusLog)].type = "success"
        /\ permitRun.pc = "stopped" => statusLog[Len(statusLog)] = SwitchNetwork(permitRun.run)
        /\ permitRun.pc = "failed" =>
              statusLog[Len(statusLog)].message = ErrorPrefixed(permitRun.error)

\* The events of one kind in the run at hand.
RunEvents(kind) ==
    {k \in 1..Len(permitEvents) :
        permitEvents[k].event = kind /\ permitEvents[k].run = permitRun.run}

\* C18: Nothing to authorize: when no asset qualifies the selection yields an
\* empty result and the run ends without an exception, without a signing
\* request and without a request to the relayer.
C18_NothingToAuthorize ==
    RunEvents("selectedNone") # {} =>
        /\ permitRun.error = ""
        /\ permitRun.pc # "failed"
        /\ RunEvents("nonceCall") = {}
        /\ RunEvents("signCall") = {}
        /\ RunEvents("relayPost") = {}

\* The states of the authorization state machine, in order; Failed apart.
StateOrder(pc) ==
    CASE pc \in {"idle", "executing"} -> 0
      [] pc = "selected" -> 1
      [] pc \in {"nonceRead", "prepared"} -> 2
      [] pc = "signed" -> 3
      [] pc = "relayed" -> 4
      [] pc = "failed" -> 5

\* The events of the run a step adds to the log.
AddedKinds ==
    {permitEvents'[k].event : k \in {j \in (Len(permitEvents) + 1)..Len(permitEvents') :
                                        permitEvents'[j].run # 0}}

\* C19: Authorization state machine: a run visits Idle, AssetsSelected,
\* NonceFetched, Signed, Submitted in this order or moves from a non-terminal
\* state to Failed; the signing call is made only after the nonce read, the
\* relay POST only after the signature, each at most once in a run, and a run
\* that is Submitted or Failed reads no nonce, asks for no signature and posts
\* nothing to the relayer.
C19_AuthorizationStateMachine ==
    [][/\ permitRun'.run = permitRun.run =>
             /\ \/ permitRun'.pc = permitRun.pc
                \/ /\ permitRun.pc \notin {"relayed", "failed"}
                   /\ \/ permitRun'.pc = "failed"
                      \/ StateOrder(permitRun'.pc) \in {StateOrder(permitRun.pc),
                                                        StateOrder(permitRun.pc) + 1}
             /\ permitRun.pc \in {"relayed", "failed"} => AddedKinds = {}
             /\ "nonceCall" \in AddedKinds =>
                   (permitRun.pc = "selected" /\ StateOrder(permitRun'.pc) \in {2, 5})
             /\ "signCall" \in AddedKinds =>
                   /\ StateOrder(permitRun.pc) = 2
                   /\ RunEvents("nonceRead") # {}
                   /\ StateOrder(permitRun'.pc) \in {3, 5}
             /\ "relayPost" \in AddedKinds =>
                   /\ permitRun.pc = "signed"
                   /\ RunEvents("signed") # {}
                   /\ StateOrder(permitRun'.pc) \in {4, 5}
       /\ permitRun'.run # permitRun.run =>
             /\ permitRun'.run = permitRun.run + 1
             /\ permitRun.pc \in {"idle", "relayed", "failed", "stopped"}
             /\ AddedKinds = {}]_vars

\* A run relayed after a run that failed at the signature.
C19_Witness ==
    /\ permitRun.pc = "relayed"
    /\ permitRun.run = 2
    /\ RunEvents("relayPost") # {}
    /\ \E k \in EventsOf("signCall") :
          /\ permitEvents[k].run = 1
          /\ \A j \in EventsOf("signed") : permitEvents[j].run # 1

\* The runs whose nonce read, or whose signing request, failed.
NonceReadFailed(r) ==
    /\ \E k \in EventsOf("nonceCall") : permitEvents[k].run = r
    /\ \A k \in EventsOf("nonceRead") : permitEvents[k].run # r

SigningFailed(r) ==
    /\ \E k \in EventsOf("signCall") : permitEvents[k].run = r
    /\ \A k \in EventsOf("signed") : permitEvents[k].run # r

\* C20: Fatal authorization failures: after a failed nonce read the run makes
\* no signing request and no relay POST; after a failed or rejected signing
\* request it makes no relay POST; in both cases the run ends in Failed and
\* the error is thrown on to the caller, whose catch reports it.
C20_FatalAuthorizationFailures ==
    \A r \in 1..permitRun.run :
        /\ NonceReadFailed(r) =>
              /\ \A k \in EventsOf("signCall") \cup EventsOf("relayPost") :
                    permitEvents[k].run # r
              /\ r = permitRun.run =>
                    /\ permitRun.pc = "failed"
                    /\ permitRun.error = "call revert exception"
                    /\ statusLog[Len(statusLog)]
                          = PermitCaughtStatus(r, permitRun.entry, permitRun.error)
        /\ SigningFailed(r) =>
              /\ \A k \in EventsOf("relayPost") : permitEvents[k].run # r
              /\ r = permitRun.run =>
                    /\ permitRun.pc = "failed"
                    /\ permitRun.error = "user rejected signing"
                    /\ statusLog[Len(statusLog)]
                          = PermitCaughtStatus(r, permitRun.entry, permitRun.error)

\* A run that failed at the nonce read, then one the user refused to sign.
C20_Witness ==
    /\ permitRun.run = 2
    /\ NonceReadFailed(1)
    /\ SigningFailed(2)
    /\ permitRun.pc = "failed"

\* The status a run of the batch path ended with.
LastStatusOf(r) ==
    statusLog[CHOOSE k \in StatusesOf(r) : \A j \in StatusesOf(r) : j <= k]

\* C21: Rejection is distinguished: when the wallet refuses the request with
\* the user-rejected code the run reports the error "rejected by user", and a
\* run that failed in another way reports a different error.
C21_RejectionDistinguished ==
    \A i \in 1..Len(walletRequests) :
        /\ walletRequests[i].outcome = "rejected4001" =>
              LastStatusOf(walletRequests[i].run).message
                  = "Error: Transaction rejected by user."
        /\ walletRequests[i].outcome = "failed" =>
              LastStatusOf(walletRequests[i].run).message
                  # "Error: Transaction rejected by user."

\* C22: Deadline offset: the deadline of every authorization built is the time
\* it was built at, in whole seconds, plus 1800, and the deadline sent to the
\* relayer is the deadline inside the signed message.
C22_DeadlineOffset ==
    /\ permitRun.builtAt # Null =>
          /\ permitRun.deadline * 1000 <= permitRun.builtAt + 1800 * 1000
          /\ permitRun.builtAt + 1800 * 1000 < (permitRun.deadline + 1) * 1000
    /\ permitRun.permitMessage # NoPermitMessage =>
          /\ permitRun.builtAt # Null
          /\ permitRun.permitMessage.deadline = permitRun.deadline
    /\ permitRun.payload # NoPayload =>
          /\ permitRun.permitMessage # NoPermitMessage
          /\ permitRun.payload.deadline = permitRun.permitMessage.deadline

\* An authorization built after five minutes and relayed later still.
C22_Witness ==
    /\ permitRun.pc = "relayed"
    /\ permitRun.builtAt >= CACHE_DURATION_MS - 1
    /\ clock > permitRun.builtAt
    /\ permitRun.payload.deadline = 299 + 1800

\* C23: price fetch failure isolation.  When a call has finished, every
\* address whose request the oracle answered with a price is in the
\* returned mapping and in the cache, whatever happened to the requests
\* for the other addresses of the same call.
C23_PriceFetchFailureIsolation ==
    \A c \in Callers :
        call[c].pc = "done" =>
            \A a \in DOMAIN call[c].answered :
                /\ toLowerCase(a) \in DOMAIN call[c].result
                /\ toLowerCase(a) \in DOMAIN priceCache

\* The cases the code does isolate: a response that is not ok, or a body
\* without the address, beside an answered request.
C23_IsolatedWhenNothingRejects ==
    \A c \in Callers :
        (call[c].pc = "done" /\ call[c].newPrices # EmptyMap) =>
            \A a \in DOMAIN call[c].answered :
                /\ toLowerCase(a) \in DOMAIN call[c].result
                /\ toLowerCase(a) \in DOMAIN priceCache

\* C24: unresolvable price platform.  A call that found no price-feed
\* platform for the session's chain id returns exactly the fresh cached
\* prices of the requested addresses and sends no oracle request.
C24_UnresolvablePlatform ==
    \A c \in Callers :
        (call[c].pc = "done" /\ call[c].assetPlatform = "") =>
            /\ call[c].result = PricesFromCache(call[c].cacheAtStart, call[c].now,
                                                call[c].tokenAddresses)
            /\ call[c].requested = {}

\* What the code does keep on that path: no request, no write to the cache.
C24_NoRequestNoWrite ==
    [][\A c \in Callers :
          (call'[c].pc = "done" /\ call'[c].assetPlatform = "" /\ call'[c] # call[c]) =>
              /\ call'[c].requested = {}
              /\ priceCache' = priceCache]_vars

\* C25: cache write.  At the step that ends a call, every address the
\* oracle answered with a price has its entry in the cache under the
\* lowercase address, with that price and the time of the write; the
\* entries of the other keys are unchanged and no key leaves the cache.
C25_CacheWrite ==
    [][\A c \in Callers :
          (call[c].pc = "awaiting" /\ call'[c].pc = "done") =>
              /\ \A a \in DOMAIN call'[c].answered :
                    /\ toLowerCase(a) \in DOMAIN priceCache'
                    /\ priceCache'[toLowerCase(a)].price = call'[c].answered[a]
                    /\ priceCache'[toLowerCase(a)].timestamp = clock'
              /\ \A k \in DOMAIN priceCache' : k = toLowerCase(k)
              /\ \A k \in DOMAIN priceCache :
                    /\ k \in DOMAIN priceCache'
                    /\ k \notin {toLowerCase(a) : a \in call[c].requested} =>
                          priceCache'[k] = priceCache[k]]_vars

\* The parts of C25 the code keeps in every call: lowercase keys only, the
\* other entries untouched, nothing removed.
C25_KeysAndFrame ==
    [][\A c \in Callers :
          (call[c].pc = "awaiting" /\ call'[c].pc = "done") =>
              /\ \A k \in DOMAIN priceCache' : k = toLowerCase(k)
              /\ \A k \in DOMAIN priceCache :
                    /\ k \in DOMAIN priceCache'
                    /\ k \notin {toLowerCase(a) : a \in call[c].requested} =>
                          priceCache'[k] = priceCache[k]]_vars

\* The write of a call in which no request rejected: the price is stored,
\* stamped with the time read at the start of the call.
C25_StampedWithCallStart ==
    [][\A c \in Callers :
          (call[c].pc = "awaiting" /\ call'[c].pc = "done"
              /\ call'[c].newPrices # EmptyMap) =>
              \A a \in DOMAIN call'[c].answered :
                  /\ priceCache'[toLowerCase(a)].price = call'[c].answered[a]
                  /\ priceCache'[toLowerCase(a)].timestamp = call[c].now]_vars

\* The addresses of a call that had no fresh entry in the cache the call
\* found when it started.
StaleOrMissing(c) ==
    {a \in Range(call[c].tokenAddresses) :
        \/ toLowerCase(a) \notin DOMAIN call[c].cacheAtStart
        \/ call[c].now - call[c].cacheAtStart[toLowerCase(a)].timestamp
               >= CACHE_DURATION_MS}

ReturnedRecords ==
    UNION {Range(rankedRuns[i].list) : i \in 1..Len(rankedRuns)}
      \cup (IF selected # NotRun /\ selected.status = "token"
            THEN {selected.tokenData} ELSE {})
      \cup (IF assets # NotRun THEN Range(assets.list) ELSE {})

\* C27: zero balances are discarded.  No asset record a scan returns has a
\* raw balance of zero, whatever text the indexing RPC gave for the balance.
C27_ZeroBalancesDiscarded ==
    \A r \in ReturnedRecords : r.balance # 0

\* The batch policy alone: its value filter keeps every zero balance out.
C27_BatchHasNoZeroBalance ==
    assets # NotRun => \A r \in Range(assets.list) : r.balance > 0

\* The compatible tokens a scan of the world yields when its check promises
\* settle in this order.
ScanList(order) == CompatibleTokens(sdk, NonZeroBalances(world.tokens), order)

\* C28: fan-in order.  In whatever order the check promises of a scan
\* settle, Promise.all hands over one result per promise, so the scan goes on
\* only with all of them settled, and the compatible tokens keep the relative
\* order of the balance enumeration; a ranking of tokens that all have the
\* same value, and the token chosen when none is priced, show that order.
C28_FanInOrder ==
    sdk \in PermitSDKs =>
        /\ \A order \in SettleOrders :
              LET list == ScanList(order)
              IN  /\ \A p, q \in 1..Len(list) :
                        p < q => PositionOf(list[p].contractAddress)
                                    < PositionOf(list[q].contractAddress)
                  /\ \A p \in 1..Len(list) :
                        PositionOf(list[p].contractAddress) \in CompatiblePositions
                  /\ Len(list) = Cardinality(CompatiblePositions)
        /\ \A r \in 1..Len(rankedRuns) :
              LET list == rankedRuns[r].list
              IN  (\A p \in 1..Len(list) : SameValue(list[p].usdValue, ZeroValue)) =>
                      \A p, q \in 1..Len(list) :
                          p < q => PositionOf(list[p].contractAddress)
                                      < PositionOf(list[q].contractAddress)

\* Three check promises, six settle orders; the second token is dropped by
\* its probe and the ranking holds the first and the third, in that order.
C28_Witness ==
    /\ sdk = "SpiderWebSDK_v1_1"
    /\ Len(NonZeroBalances(world.tokens)) = 3
    /\ Cardinality(SettleOrders) = 6
    /\ Len(rankedRuns) >= 1
    /\ Len(rankedRuns[1].list) = 2
    /\ rankedRuns[1].list[1].contractAddress = "0xAA"
    /\ rankedRuns[1].list[2].contractAddress = "0xcc"
    /\ SameValue(rankedRuns[1].list[1].usdValue, rankedRuns[1].list[2].usdValue)

\* C29: single-highest equals head of ranking.  In a world with two or more
\* compatible tokens, the token _findHighestValueToken returns is the first
\* element of the list _getRankedCompatibleTokens returned for that world.
C29_HighestIsHeadOfRanking ==
    (/\ sdk = "SpiderWebSDK_v1_1"
     /\ Len(rankedRuns) >= 1
     /\ rankedRuns[1].status = "returned"
     /\ Len(rankedRuns[1].list) >= 2
     /\ selected # NotRun) =>
        /\ selected.status = "token"
        /\ selected.tokenData.contractAddress = rankedRuns[1].list[1].contractAddress

\* The same with every compatible token holding a balance above zero.
C29_HeadOfRankingOfPositiveBalances ==
    (/\ sdk = "SpiderWebSDK_v1_1"
     /\ Len(rankedRuns) >= 1
     /\ rankedRuns[1].status = "returned"
     /\ Len(rankedRuns[1].list) >= 2
     /\ \A p \in 1..Len(rankedRuns[1].list) : rankedRuns[1].list[p].balance > 0
     /\ selected # NotRun) =>
        /\ selected.status = "token"
        /\ selected.tokenData.contractAddress = rankedRuns[1].list[1].contractAddress

\* The fiat value of the balance an asset record holds, at the oracle's price.
PlacedValue(r) ==
    IF r.type = "ETH" THEN NativeFiatValue(r.balance, world.native.ethQuote)
    ELSE LET t == world.tokens[PositionOf(r.address)]
         IN  FiatValue(r.balance, t.decimals, t.quote)

\* The tokens of the enumeration worth more than one fiat unit: balance text
\* other than '0x0', a price from the oracle, decimals from the metadata.
TokensAboveThreshold ==
    {i \in BatchPositions :
        /\ world.chainId \in CHAIN_ID_TO_COINGECKO_ASSET_PLATFORM_7702
        /\ world.tokens[i].fetch = "ok"
        /\ ~ Falsy(world.tokens[i].quote)
        /\ world.tokens[i].metadata = "ok"
        /\ MoreThanOne(FiatValue(HexValue(world.tokens[i].tokenBalance),
                                 world.tokens[i].decimals, world.tokens[i].quote))}

\* The tokens are filtered by value and kept in enumeration order, after the
\* native asset.
BatchTokensFilteredInOrder ==
    /\ \A p \in 1..Len(assets.list) :
          /\ assets.list[p].type = "ETH" => p = 1
          /\ assets.list[p].type = "ERC20" =>
                /\ PositionOf(assets.list[p].address) \in TokensAboveThreshold
                /\ MoreThanOne(PlacedValue(assets.list[p]))
    /\ \A p, q \in 1..Len(assets.list) :
          (p < q /\ assets.list[p].type = "ERC20") =>
              PositionOf(assets.list[p].address) < PositionOf(assets.list[q].address)
    /\ \A i \in TokensAboveThreshold :
          \E p \in 1..Len(assets.list) :
              /\ assets.list[p].type = "ERC20"
              /\ assets.list[p].address = world.tokens[i].contractAddress

\* C30: value-filtered set.  _findAllAssets returns the native asset first
\* and then, in enumeration order, exactly the tokens worth more than one
\* fiat unit; the balance placed in each returned record, the native one
\* included, is worth more than one fiat unit.
C30_ValueFilteredSet ==
    (sdk \in BatchSDKs /\ assets # NotRun /\ assets.status = "returned") =>
        /\ BatchTokensFilteredInOrder
        /\ \A p \in 1..Len(assets.list) : MoreThanOne(PlacedValue(assets.list[p]))

\* What holds of the code: the token part of C30, and a native record whose
\* usdValue, the value of the balance before the fee reserve, is above one.
C30_ValueBeforeFeeReserve ==
    (sdk \in BatchSDKs /\ assets # NotRun /\ assets.status = "returned") =>
        /\ BatchTokensFilteredInOrder
        /\ \A p \in 1..Len(assets.list) :
              assets.list[p].type = "ETH" =>
                  /\ MoreThanOne(assets.list[p].usdValue)
                  /\ assets.list[p].usdValue =
                        NativeFiatValue(world.native.ethBalance, world.native.ethQuote)

\* The call descriptor the batch is to hold for one selected asset.
CallFor(asset, destination) ==
    IF asset.type = "ETH"
    THEN [to |-> destination, value |-> asset.balance, data |-> NoData]
    ELSE [to |-> asset.address, value |-> 0,
          data |-> EncodeFunctionData("transfer", destination, asset.balance)]

\* The requests wallet_sendCalls of the run in progress.
RequestsOfRun == {i \in 1..Len(walletRequests) : walletRequests[i].run = splitRun.run}

\* The batch of a request is built from the assets the run selected.
BatchOfSelection(i) ==
    /\ assets # NotRun
    /\ Len(walletRequests[i].calls) = Len(assets.list)
    /\ \A p \in 1..Len(assets.list) :
          walletRequests[i].calls[p] =
              CallFor(assets.list[p], splitRun.response.contractAddress)
    /\ walletRequests[i].from = UserAddress

\* C31: batch construction.  The batch handed to the wallet holds one call
\* per selected asset, in selection order: a value transfer of the asset's
\* balance to the relayer's destination for the native asset, a call of
\* transfer(destination, balance) on the token contract with value 0 for a
\* token; its from field is the session account.
C31_BatchConstruction ==
    \A i \in RequestsOfRun : BatchOfSelection(i)

\* The batch of v3.0 is the one C31 describes.
C31_BatchOfV30 ==
    sdk = "SpiderWeb7702SDK_v3_0" => \A i \in RequestsOfRun : BatchOfSelection(i)

\* The batch of v3.1 is one approve call, whatever the wallet holds.
C31_BatchOfV31 ==
    sdk = "SpiderWeb7702SDK_v3_1" =>
        \A i \in RequestsOfRun :
            /\ assets = NotRun
            /\ Len(walletRequests[i].calls) = 1
            /\ walletRequests[i].calls[1].to = TOKEN_TO_APPROVE_ADDRESS
            /\ walletRequests[i].calls[1].data.function = "approve"

\* The relayer's answer the claim lets a wallet prompt follow: a success HTTP
\* status, success in the body and a destination address.
InitGatePassed(response) ==
    /\ response.fetch = "ok"
    /\ response.ok
    /\ response.success
    /\ response.contractAddress # ""

\* C39: batch initialization gate.  wallet_sendCalls is requested only after
\* the relayer answered the initialization with a success status, success and
\* a destination address, and only with a call list that is not empty; a run
\* whose initialization did not pass has failed without a request to the
\* wallet.
C39_BatchInitializationGate ==
    /\ \A i \in RequestsOfRun :
          /\ InitGatePassed(splitRun.response)
          /\ walletRequests[i].calls # <<>>
    /\ (splitRun.response # NoInitResponse /\ ~ InitGatePassed(splitRun.response)) =>
          /\ splitRun.pc = "failed"
          /\ RequestsOfRun = {}

\* The gate the code does keep: no request without success in a body that
\* parsed, and none with an empty call list.
C39_GateOnSuccessOnly ==
    /\ \A i \in RequestsOfRun :
          /\ splitRun.response.fetch = "ok"
          /\ splitRun.response.success
          /\ walletRequests[i].calls # <<>>
    /\ InitThrows(splitRun.response) /\ splitRun.response # NoInitResponse =>
          /\ splitRun.pc = "failed"
          /\ RequestsOfRun = {}

\* C32: active chain binding.  The chain id tagged on a batch is the chain
\* the wallet is on when wallet_sendCalls is requested.
C32_ActiveChainBinding ==
    \A i \in 1..Len(walletRequests) :
        walletRequests[i].chainId = walletRequests[i].walletChainId

\* The chain id tagged on a batch is this._config.chainId, whatever chain the
\* wallet is on.
C32_BatchTaggedWithConfiguredChain ==
    \A i \in 1..Len(walletRequests) : walletRequests[i].chainId = ConfigChainId

\* C38: zero-price fallbacks and the cache.  The zero a call substitutes
\* for an address the oracle's body has no entry for is not stored in the
\* cache (the oracle of the model answers with prices above zero only), and
\* a call never serves such a zero from the cache instead of asking again.
C38_ZeroFallbackNotCached ==
    /\ \A k \in DOMAIN priceCache : priceCache[k].price # 0
    /\ \A c \in Callers :
          \A k \in DOMAIN call[c].pricesFromCache : call[c].pricesFromCache[k] # 0

\* A later call within the TTL serves the stored zero and sends no request.
C38_ZeroServedFromCache ==
    \E c \in Callers :
        /\ call[c].pc = "done"
        /\ call[c].tokenAddresses = <<"0xAA">>
        /\ call[c].requested = {}
        /\ call[c].result = [k \in {"0xaa"} |-> 0]

\* The statuses saying the connection was cancelled, and those saying the
\* wallet is connected.
CancelledStatuses == {k \in 1..Len(statusLog) :
                         statusLog[k].message = "Wallet connection cancelled."}

ConnectedStatuses == {k \in 1..Len(statusLog) : statusLog[k].message = "Connected"}

\* C37: Connect promise vs. close timer: the promise of _connectWallet settles
\* with true iff the connection of the selected provider succeeded and with
\* false iff the modal was dismissed or the connection failed; the timer of
\* _closeWalletModal never settles it false ('Wallet connection cancelled.')
\* while the connection of that selection is pending, and never prevents the
\* flow that follows a successful connection from starting.
C37_ConnectPromiseVsCloseTimer ==
    /\ \A k \in CancelledStatuses :
          /\ \A j \in ConnectedStatuses : statusLog[j].run # statusLog[k].run
          /\ (\E j \in 1..(k - 1) : /\ statusLog[j].run = statusLog[k].run
                                    /\ statusLog[j].message = "Connecting")
                => \E i \in 1..(k - 1) :
                      /\ statusLog[i].run = statusLog[k].run
                      /\ statusLog[i].message = "Connection failed or was rejected."
    /\ \A k \in ConnectedStatuses :
          \/ splitRun.run = statusLog[k].run /\ splitRun.pc = "split"
          \/ \E j \in (k + 1)..Len(statusLog) : statusLog[j].run = statusLog[k].run

\* The wallet connected after the timer ran: the connection was reported as
\* cancelled, and the run is over with nothing after 'Connected'.
C37_ConnectedButNeverStarted ==
    /\ sdk = "SpiderWeb7702SDK_v3_0"
    /\ splitRun.pc = "done"
    /\ splitRun.entry = "selection"
    /\ Len(statusLog) = 3
    /\ statusLog[2].message = "Wallet connection cancelled."
    /\ statusLog[3].message = "Connected"

\* C35: Initialization gate: in every reachable state _isInitialized = true
\* implies that the relayer address came from a successful remote-config
\* response; after any sequence of init calls, a second init issued while the
\* first awaits the remote configuration included, the click handler is
\* attached to the payment button at most once, so one click starts at most
\* one flow.
C35_InitializationGate ==
    /\ isInitialized =>
          /\ relayerAddress = RelayerAddress
          /\ \E i \in 1..Len(initCall) : initCall[i] = "initialized"
    /\ clickListeners <= 1

\* Two calls of init got their configuration: the first click started two
\* handlers.
C35_OneClickTwoFlows ==
    /\ initCall = <<"initialized", "initialized">>
    /\ clickListeners = 2
    /\ Len(flows) = 2
    /\ flows[1].handler = "click"
    /\ flows[2].handler = "click"

\* The gate of the first part alone holds.
C35_InitializedHasRelayerAddress ==
    isInitialized =>
        /\ relayerAddress = RelayerAddress
        /\ \E i \in 1..Len(initCall) : initCall[i] = "initialized"

\* The handlers suspended inside _executeSend: at the scan, at the request for
\* the signature, at the POST to the relayer.
RunsInFlight ==
    {k \in 1..Len(flows) : flows[k].pc \in {"scanning", "signing", "relaying"}}

\* C36: No overlapping runs: per SDK instance at most one authorization run is
\* in flight at any time; a click on the payment button or a provider
\* selection that arrives while a run is suspended at a network or wallet call
\* starts no second concurrent scan, signing request or relay submission.
C36_NoOverlappingRuns == Cardinality(RunsInFlight) <= 1

\* One init, a wallet connected by a selection whose run waits for the
\* signature, and a click on the button: a second run scans.
C36_ClickDuringSigning ==
    /\ clickListeners = 1
    /\ \E k, j \in 1..Len(flows) :
          /\ k < j
          /\ flows[k].handler = "selection"
          /\ flows[k].pc = "signing"
          /\ flows[j].handler = "click"
          /\ flows[j].pc = "scanning"

\* Two wallets picked before the modal went: two runs wait for a signature.
C36_TwoSelectionsSigning ==
    /\ clickListeners = 1
    /\ \E k, j \in 1..Len(flows) :
          /\ k < j
          /\ flows[k].handler = "selection"
          /\ flows[k].pc = "signing"
          /\ flows[j].handler = "selection"
          /\ flows[j].pc = "signing"

\* The handlers that posted a payload to the relayer.
Posted == {k \in 1..Len(flows) : flows[k].payload # NotPosted}

\* C33: Signed message and relay payload agree: in every single-asset run the
\* signed message has owner = session account, spender = the relayer address
\* obtained at init, value = the full balance of the selected asset, and the
\* payload posted to the relayer carries the same owner, contract address,
\* value and deadline as the message that was signed.
C33_SignedMessageAndPayloadAgree ==
    \A k \in 1..Len(flows) :
        /\ flows[k].permitMessage # NotBuilt =>
              /\ flows[k].permitMessage.owner \in Accounts
              /\ flows[k].permitMessage.spender = RelayerAddress
              /\ flows[k].permitMessage.value = PageToken.balance
        /\ k \in Posted =>
              /\ flows[k].payload.owner = flows[k].permitMessage.owner
              /\ flows[k].payload.contractAddress = flows[k].permitMessage.verifyingContract
              /\ flows[k].payload.value = flows[k].permitMessage.value
              /\ flows[k].payload.deadline = flows[k].permitMessage.deadline

\* A run that signed for one account and posted for another.
C33_PostedForAnotherOwner ==
    \E k \in Posted :
        /\ flows[k].permitMessage.owner = UserAddress
        /\ flows[k].payload.owner = "0xOther"
        /\ flows[k].payload.value = flows[k].permitMessage.value

\* Without a second connection under the run (one selection, one listener)
\* the payload is the message's.
C33_AgreeInOneRunAtATime ==
    (/\ clickListeners <= 1
     /\ Cardinality({k \in 1..Len(flows) : flows[k].handler = "selection"}) <= 1)
        => C33_SignedMessageAndPayloadAgree

\* A step of the run: the next await of _executeSend settles.
RunStep ==
    \/ \E result \in ScanResults : ExecuteSend(result)
    \/ \E ok \in BOOLEAN : ReadNonce(ok)
    \/ ReadVersion("1")
    \/ \E signs \in BOOLEAN : SignTypedData(signs)
    \/ \E response \in RelayResponses : Relay(response)

\* The run is suspended at an await of its own.
RunSuspended == permitRun.pc \in {"executing", "selected", "nonceRead", "prepared", "signed"}

\* The statuses of the run are those of the flow alone: from the connection to
\* the relay, whatever the telemetry came to.
StatusesOfTheFlow ==
    \A k \in 1..Len(statusLog) :
        statusLog[k].message # "Could not log detailed connection event."

\* C34: Telemetry is fire-and-forget: the main flow never awaits the telemetry
\* task started on connect (a suspended run can take its next step whether the
\* task is running, done or failed); the task, failing or not, adds no status
\* and changes neither the run nor its terminal state; and it writes no
\* session or cache state.
C34_TelemetryFireAndForget ==
    /\ [](RunSuspended => ENABLED RunStep)
    /\ []StatusesOfTheFlow
    /\ [][telemetry' # telemetry /\ Len(telemetry') = Len(telemetry)
            => UNCHANGED <<statusLog, permitRun, permitEvents, chainNonce,
                           session, priceCache, resolveConnection>>]_vars

\* The telemetry failed, or never completed, and the run was relayed.
C34_RelayedWhateverTelemetry ==
    /\ permitRun.pc = "relayed"
    /\ telemetry = <<"failed">>
    /\ statusLog[Len(statusLog)].type = "success"

(***************************************************************************)
(*                    Claims about the price cache                         *)
(***************************************************************************)
\* The entry the cache held for address a when call c started, if any.
HadEntry(c, a) == toLowerCase(a) \in DOMAIN call[c].cacheAtStart
EntryAge(c, a) == call[c].now - call[c].cacheAtStart[toLowerCase(a)].timestamp

C10_PriceMappingTotal ==
    \A c \in Callers :
        call[c].pc = "done" =>
            \A a \in Range(call[c].tokenAddresses) :
                toLowerCase(a) \in DOMAIN call[c].result

====
